---- MODULE Spec2Model ----
(***************************************************************************)
(* Model of the Enact security library: field selection and canonical     *)
(* form (fieldConfig), the crypto wrappers (CryptoUtils), the key store    *)
(* (KeyManager: generate, import, remove), the security-config file        *)
(* (SecurityConfigManager: load, save, update, reset, import), the         *)
(* SigningService of the trusted-host package and verifyDocument of the    *)
(* web package.                                                            *)
(*                                                                         *)
(* Cryptography is abstract: SHA-256 is collision free (a digest is the    *)
(* string it was computed from) and an ECDSA signature verifies under      *)
(* exactly one public key and one digest.                                  *)
(***************************************************************************)
EXTENDS Integers, Sequences, FiniteSets, TLC

(***************************************************************************)
(* Bounds of the model                                                     *)
(***************************************************************************)
NumKeys == 2
NumKeyIds == 2
MaxSignatures == 2
MaxMinimumSignatures == 2
MaxEdits == 1
MaxClock == 2

(***************************************************************************)
(* JSON values of document fields                                          *)
(***************************************************************************)
Undefined == [type |-> "undefined"]
Null == [type |-> "null"]
Str(s) == [type |-> "string", s |-> s]
EmptyArray == [type |-> "array", items |-> <<>>]
EmptyObject == [type |-> "object", keys |-> <<>>]
Num(n) == [type |-> "number", n |-> n]
Bool(b) == [type |-> "boolean", b |-> b]

\* isEmpty that takes every falsy value for empty
isEmptyFalsy(value) ==
  IF value.type = "null" \/ value.type = "undefined" THEN TRUE
  ELSE IF value.type = "string" /\ value.s = "" THEN TRUE
  ELSE IF value.type = "number" /\ value.n = 0 THEN TRUE
  ELSE IF value.type = "boolean" /\ ~value.b THEN TRUE
  ELSE IF value.type = "array" /\ Len(value.items) = 0 THEN TRUE
  ELSE IF value.type = "object" /\ Len(value.keys) = 0 THEN TRUE
  ELSE FALSE

\* FieldSelector.isEmpty
isEmpty(value) ==
  IF value.type = "null" \/ value.type = "undefined" THEN TRUE
  ELSE IF value.type = "string" /\ value.s = "" THEN TRUE
  ELSE IF value.type = "array" /\ Len(value.items) = 0 THEN TRUE
  ELSE IF value.type = "object" /\ Len(value.keys) = 0 THEN TRUE
  ELSE FALSE

\* FieldSelector.isNonEmpty
isNonEmpty(value) == ~isEmpty(value)

(***************************************************************************)
(* Field configurations                                                    *)
(***************************************************************************)
FieldConfig(n, r, c) == [name |-> n, required |-> r, securityCritical |-> c]

ENACT_DEFAULT_CRITICAL_FIELDS ==
  << FieldConfig("annotations", FALSE, TRUE),
     FieldConfig("command", TRUE, TRUE),
     FieldConfig("description", TRUE, TRUE),
     FieldConfig("enact", FALSE, TRUE),
     FieldConfig("env", FALSE, TRUE),
     FieldConfig("from", FALSE, TRUE),
     FieldConfig("inputSchema", FALSE, TRUE),
     FieldConfig("name", TRUE, TRUE),
     FieldConfig("timeout", FALSE, TRUE),
     FieldConfig("version", FALSE, TRUE) >>

GENERIC_DEFAULT_FIELDS ==
  << FieldConfig("id", TRUE, TRUE),
     FieldConfig("content", TRUE, TRUE),
     FieldConfig("timestamp", TRUE, TRUE),
     FieldConfig("metadata", FALSE, FALSE) >>

\* Array.prototype.sort() without comparator orders strings by code unit;
\* this is that order on the field names in use.
CodeUnitOrder ==
  << "annotations", "command", "content", "description", "enact", "env",
     "from", "id", "inputSchema", "license", "metadata", "name",
     "signatures", "timeout", "timestamp", "version" >>

Rank(name) == CHOOSE i \in 1..Len(CodeUnitOrder) : CodeUnitOrder[i] = name

RECURSIVE InsertSorted(_, _)
InsertSorted(name, sorted) ==
  IF sorted = <<>> THEN <<name>>
  ELSE IF Rank(name) <= Rank(Head(sorted)) THEN <<name>> \o sorted
  ELSE <<Head(sorted)>> \o InsertSorted(name, Tail(sorted))

RECURSIVE SortNames(_)
SortNames(names) ==
  IF names = <<>> THEN <<>>
  ELSE InsertSorted(Head(names), SortNames(Tail(names)))

Range(seq) == {seq[i] : i \in 1..Len(seq)}

RECURSIVE Filter(_, _)
Filter(seq, keep) ==
  IF seq = <<>> THEN <<>>
  ELSE IF Head(seq) \in keep THEN <<Head(seq)>> \o Filter(Tail(seq), keep)
  ELSE Filter(Tail(seq), keep)

(***************************************************************************)
(* Documents: the plain fields and the signatures array                    *)
(***************************************************************************)
hasOwnProperty(document, name) ==
  IF name = "signatures" THEN document.hasSignatures
  ELSE name \in DOMAIN document.fields

Get(document, name) ==
  IF name = "signatures"
    THEN (IF document.hasSignatures
            THEN [type |-> "array", items |-> document.signatures]
            ELSE Undefined)
  ELSE IF name \in DOMAIN document.fields THEN document.fields[name]
  ELSE Undefined

(***************************************************************************)
(* Signing options; includeFields is absent or a list                      *)
(***************************************************************************)
Options(enact, hasInclude, include, exclude, additional) ==
  [useEnactDefaults |-> enact, hasIncludeFields |-> hasInclude,
   includeFields |-> include, excludeFields |-> exclude,
   additionalCriticalFields |-> additional]

\* const fieldSelector = useEnactDefaults ? EnactFieldSelector : GenericFieldSelector
fieldSelector(options) ==
  IF options.useEnactDefaults THEN ENACT_DEFAULT_CRITICAL_FIELDS
  ELSE GENERIC_DEFAULT_FIELDS

RECURSIVE criticalFields(_)
criticalFields(activeConfig) ==
  IF activeConfig = <<>> THEN <<>>
  ELSE IF Head(activeConfig).securityCritical
    THEN <<Head(activeConfig).name>> \o criticalFields(Tail(activeConfig))
  ELSE criticalFields(Tail(activeConfig))

\* fieldsToInclude with additionalCriticalFields dropped
fieldsToIncludeNoAdditional(activeConfig, options) ==
  LET chosen == IF options.hasIncludeFields THEN options.includeFields
                ELSE criticalFields(activeConfig)
  IN Filter(chosen, Range(chosen) \ Range(options.excludeFields))

\* fieldsToInclude with additionalCriticalFields appended to includeFields too
fieldsToIncludeAlwaysAdditional(activeConfig, options) ==
  LET chosen == IF options.hasIncludeFields
                  THEN options.includeFields \o options.additionalCriticalFields
                ELSE criticalFields(activeConfig) \o options.additionalCriticalFields
  IN Filter(chosen, Range(chosen) \ Range(options.excludeFields))

\* FieldSelector.createCanonicalObject: the fields selected for signing,
\* after includeFields / additionalCriticalFields / excludeFields
fieldsToInclude(activeConfig, options) ==
  LET chosen == IF options.hasIncludeFields THEN options.includeFields
                ELSE criticalFields(activeConfig) \o options.additionalCriticalFields
  IN Filter(chosen, Range(chosen) \ Range(options.excludeFields))

\* validateRequiredFields that checks every required field of the config
validateRequiredFieldsAll(document, config, fields) ==
  \E i \in 1..Len(config) :
     /\ config[i].required
     /\ \/ ~hasOwnProperty(document, config[i].name)
        \/ isEmpty(Get(document, config[i].name))

\* FieldSelector.validateRequiredFields: TRUE when it throws
validateRequiredFieldsThrows(document, config, fields) ==
  \E i \in 1..Len(config) :
     /\ config[i].required
     /\ config[i].name \in Range(fields)
     /\ \/ ~hasOwnProperty(document, config[i].name)
        \/ isEmpty(Get(document, config[i].name))

\* the forEach of createCanonicalObject: assigning a key twice keeps its
\* first position
RECURSIVE BuildCanonical(_, _, _)
BuildCanonical(document, sorted, canonical) ==
  IF sorted = <<>> THEN canonical
  ELSE LET fieldName == Head(sorted)
           value == Get(document, fieldName)
           present == \E i \in 1..Len(canonical) : canonical[i][1] = fieldName
       IN BuildCanonical(document, Tail(sorted),
            IF isNonEmpty(value) /\ ~present
              THEN Append(canonical, <<fieldName, value>>)
              ELSE canonical)

Thrown == [thrown |-> TRUE, value |-> <<>>]
Returned(v) == [thrown |-> FALSE, value |-> v]

\* FieldSelector.createCanonicalObject
createCanonicalObject(document, options) ==
  LET activeConfig == fieldSelector(options)
      fields == fieldsToInclude(activeConfig, options)
  IN IF validateRequiredFieldsThrows(document, activeConfig, fields)
       THEN Thrown
       ELSE Returned(BuildCanonical(document, SortNames(fields), <<>>))

(***************************************************************************)
(* CryptoUtils                                                             *)
(***************************************************************************)
\* Private keys are 1..NumKeys; 0 stands for a string that is no valid scalar.
PrivateKeys == 1..NumKeys

PublicKeyHex == << "02a1", "03b2", "02c3", "03d4", "02e5" >>

\* CryptoUtils.getPublicKeyFromPrivate
getPublicKeyFromPrivate(privateKey) == PublicKeyHex[privateKey]

\* CryptoUtils.hash
hash(data) == [sha256 |-> data]

\* CryptoUtils.sign: deterministic, one signature string per key and digest
sign(privateKey, messageHash) == [signer |-> privateKey, over |-> messageHash]

\* a signature string that is not a compact signature ('' or other text)
InvalidSignatureHex == [signer |-> 0, over |-> hash(<<>>)]

\* secp256k1.verify; "throws" for input it cannot decode
secp256k1Verify(signatureHex, messageHash, publicKeyHex) ==
  IF publicKeyHex \notin Range(PublicKeyHex) \/ signatureHex.signer = 0
    THEN "throws"
  ELSE IF /\ getPublicKeyFromPrivate(signatureHex.signer) = publicKeyHex
          /\ signatureHex.over = messageHash
    THEN "true"
  ELSE "false"

\* CryptoUtils.verify
verify(publicKeyHex, messageHash, signatureHex) ==
  LET r == secp256k1Verify(signatureHex, messageHash, publicKeyHex)
  IN IF r = "throws" THEN FALSE ELSE r = "true"

\* CryptoUtils.hexToPem(hexKey, 'PUBLIC'): DER prefix, then the key
hexToPem(hexKey) ==
  [label |-> "PUBLIC KEY",
   der |-> << "3056301006072a8648ce3d020106052b8104000a", "034200", hexKey >>]

\* pemToHex that forgets to skip the 034200 tag
pemToHexTag(pemKey) ==
  LET der == pemKey.der
      found == {i \in 1..Len(der) : der[i] = "034200"}
      publicKeyStart == IF found = {} THEN 1
                        ELSE CHOOSE i \in found : \A j \in found : i <= j
  IN IF publicKeyStart <= Len(der) THEN der[publicKeyStart] ELSE ""

\* CryptoUtils.pemToHex(pemKey, 'PUBLIC'): what follows the first 034200
pemToHex(pemKey) ==
  LET der == pemKey.der
      found == {i \in 1..Len(der) : der[i] = "034200"}
      publicKeyStart == IF found = {} THEN 1
                        ELSE 1 + CHOOSE i \in found : \A j \in found : i <= j
  IN IF publicKeyStart <= Len(der) THEN der[publicKeyStart] ELSE ""

(***************************************************************************)
(* KeyManager: the trusted-keys directory                                  *)
(***************************************************************************)
KeyIds == 1..NumKeyIds

NoFile == [label |-> "none", der |-> <<>>]

\* KeyManager.getAllTrustedPublicKeys
getAllTrustedPublicKeys(dir) ==
  {pemToHex(dir[keyId]) : keyId \in {id \in DOMAIN dir : dir[id] # NoFile}}

\* CryptoUtils.hexToPem(hexKey, 'PRIVATE'): DER prefix, the scalar, the
\* suffix with the public key
hexToPemPrivate(privateKey) ==
  [label |-> "PRIVATE KEY",
   der |-> << "308184020100301006072a8648ce3d020106052b8104000a046d306b020101",
              "0420", privateKey, "a144034200",
              getPublicKeyFromPrivate(privateKey) >>]

\* The files of the key store: trusted[keyId] is <keyId>-public.pem,
\* private[keyId] is <keyId>-private.pem, meta[keyId] tells whether
\* <keyId>.meta exists.
KeyStore(trusted, private, meta) ==
  [trusted |-> trusted, private |-> private, meta |-> meta]

\* KeyManager.keyExists
keyExists(store, keyId) ==
  store.trusted[keyId] # NoFile /\ store.private[keyId] # NoFile

\* KeyManager.getPublicKey; "" stands for undefined
getPublicKey(store, keyId) ==
  IF store.trusted[keyId] = NoFile THEN "" ELSE pemToHex(store.trusted[keyId])

\* removeKey that leaves the public key file in place
removeKeyKeepsPublic(store, keyId, failAt) ==
  [store |-> [store EXCEPT !.private[keyId] = NoFile, !.meta[keyId] = FALSE],
   removed |-> store.private[keyId] # NoFile \/ store.meta[keyId]]

\* KeyManager.removeKey: unlinks the public key, the private key and the
\* metadata, each when it exists; failAt names the unlinkSync that throws
\* (0: none), after which the catch returns false
removeKey(store, keyId, failAt) ==
  LET publicThere == store.trusted[keyId] # NoFile
      stop1 == publicThere /\ failAt = 1
      s1 == IF publicThere /\ ~stop1
              THEN [store EXCEPT !.trusted[keyId] = NoFile] ELSE store
      privateThere == store.private[keyId] # NoFile
      stop2 == stop1 \/ (privateThere /\ failAt = 2)
      s2 == IF privateThere /\ ~stop2
              THEN [s1 EXCEPT !.private[keyId] = NoFile] ELSE s1
      metaThere == store.meta[keyId]
      stop3 == stop2 \/ (metaThere /\ failAt = 3)
      s3 == IF metaThere /\ ~stop3
              THEN [s2 EXCEPT !.meta[keyId] = FALSE] ELSE s2
  IN [store |-> s3,
      removed |-> ~stop3 /\ (publicThere \/ privateThere \/ metaThere)]

\* KeyManager.storeKey: three writeFileSync calls; failAt names the one that
\* throws (0: none), after which the catch calls removeKey(keyId) and rethrows
storeKey(store, keyId, keyPair, failAt) ==
  LET w1 == [store EXCEPT !.trusted[keyId] = hexToPem(keyPair.publicKey)]
      w2 == [w1 EXCEPT !.private[keyId] = hexToPemPrivate(keyPair.privateKey)]
      w3 == [w2 EXCEPT !.meta[keyId] = TRUE]
      reached == IF failAt = 1 THEN store ELSE IF failAt = 2 THEN w1 ELSE w2
  IN IF failAt = 0 THEN [store |-> w3, thrown |-> FALSE]
     ELSE [store |-> removeKey(reached, keyId, 0).store, thrown |-> TRUE]

\* KeyManager.generateAndStoreKey; privateKey is the scalar generateKeyPair draws
generateAndStoreKey(store, keyId, privateKey, failAt) ==
  IF keyExists(store, keyId) THEN [store |-> store, thrown |-> TRUE]
  ELSE storeKey(store, keyId,
                [privateKey |-> privateKey,
                 publicKey |-> getPublicKeyFromPrivate(privateKey)], failAt)

\* KeyManager.importKey; getPublicKeyFromPrivate throws for a string that is
\* no scalar
importKey(store, keyId, privateKey, failAt) ==
  IF privateKey \notin PrivateKeys THEN [store |-> store, thrown |-> TRUE]
  ELSE storeKey(store, keyId,
                [privateKey |-> privateKey,
                 publicKey |-> getPublicKeyFromPrivate(privateKey)], failAt)

\* KeyManager.importPublicKey: two writeFileSync calls; failAt names the one
\* that throws (0: none), after which the catch unlinks what was written
importPublicKey(store, keyId, publicKey, failAt) ==
  LET w1 == [store EXCEPT !.trusted[keyId] = hexToPem(publicKey)]
      w2 == [w1 EXCEPT !.meta[keyId] = TRUE]
  IN IF getPublicKey(store, keyId) # "" THEN [store |-> store, thrown |-> TRUE]
     ELSE IF failAt = 0 THEN [store |-> w2, thrown |-> FALSE]
     ELSE IF failAt = 1 THEN [store |-> store, thrown |-> TRUE]
     ELSE [store |-> [store EXCEPT !.trusted[keyId] = NoFile,
                                   !.meta[keyId] = FALSE],
           thrown |-> TRUE]

(***************************************************************************)
(* SecurityConfigManager                                                   *)
(***************************************************************************)
DEFAULT_SECURITY_CONFIG == [allowLocalUnsigned |-> TRUE, minimumSignatures |-> 1]

MissingConfig == [kind |-> "missing", config |-> DEFAULT_SECURITY_CONFIG]
CorruptConfig == [kind |-> "corrupt", config |-> DEFAULT_SECURITY_CONFIG]
JsonConfig(c) == [kind |-> "json", config |-> c]

\* { ...base, ...over }
Spread(base, over) == over @@ base

\* loadConfig that never reads the file
loadConfigDefaults(file) == DEFAULT_SECURITY_CONFIG

\* SecurityConfigManager.loadConfig: the value returned
loadConfig(file) ==
  IF file.kind = "json" THEN Spread(DEFAULT_SECURITY_CONFIG, file.config)
  ELSE DEFAULT_SECURITY_CONFIG

\* SecurityConfigManager.loadConfig -> initializeConfig: the file afterwards;
\* written tells whether writeFileSync succeeded
configFileAfterLoad(file, written) ==
  IF file.kind = "missing" /\ written THEN JsonConfig(DEFAULT_SECURITY_CONFIG)
  ELSE file

\* SecurityConfigManager.saveConfig: the defaults completed by config are
\* written; written tells whether writeFileSync succeeded
saveConfig(file, config, written) ==
  [file |-> IF written THEN JsonConfig(Spread(DEFAULT_SECURITY_CONFIG, config))
            ELSE file,
   value |-> written]

\* SecurityConfigManager.updateConfig
updateConfig(file, updates, initWritten, written) ==
  LET currentConfig == loadConfig(file)
      updatedConfig == Spread(currentConfig, updates)
      saved == saveConfig(configFileAfterLoad(file, initWritten),
                          updatedConfig, written)
  IN [file |-> saved.file,
      value |-> IF saved.value THEN updatedConfig ELSE currentConfig]

\* SecurityConfigManager.resetToDefaults
resetToDefaults(file, written, initWritten) ==
  LET saved == saveConfig(file, DEFAULT_SECURITY_CONFIG, written)
  IN IF saved.value
       THEN [file |-> saved.file, value |-> DEFAULT_SECURITY_CONFIG]
     ELSE [file |-> configFileAfterLoad(file, initWritten),
           value |-> loadConfig(file)]

\* SecurityConfigManager.validateConfig on a parsed object
validateConfig(config) ==
  /\ "allowLocalUnsigned" \in DOMAIN config
       => config.allowLocalUnsigned \in BOOLEAN
  /\ "minimumSignatures" \in DOMAIN config
       => config.minimumSignatures \in Nat

\* importConfig that saves the parsed config without validating it
importConfigUnvalidated(file, source, written) ==
  IF source.kind # "json" THEN [file |-> file, value |-> Null]
  ELSE LET saved == saveConfig(file, source.config, written)
       IN [file |-> saved.file,
           value |-> IF saved.value THEN source.config ELSE Null]

\* SecurityConfigManager.importConfig(filePath); source is the file at
\* filePath; the value is the parsed config or Null
importConfig(file, source, written) ==
  IF source.kind # "json" THEN [file |-> file, value |-> Null]
  ELSE IF ~validateConfig(source.config) THEN [file |-> file, value |-> Null]
  ELSE LET saved == saveConfig(file, source.config, written)
       IN [file |-> saved.file,
           value |-> IF saved.value THEN source.config ELSE Null]

(***************************************************************************)
(* SigningService                                                          *)
(***************************************************************************)
\* JSON.stringify of the canonical object: keys in insertion order
JSONstringify(canonical) ==
  [i \in 1..Len(canonical) |-> [key |-> canonical[i][1], json |-> canonical[i][2]]]

\* createDocumentHash over the whole document, whatever the options select
createDocumentHashWhole(document, options) ==
  Returned(hash(<<document.fields, document.signatures>>))

\* SigningService.createDocumentHash
createDocumentHash(document, options) ==
  LET canonicalDocument == createCanonicalObject(document, options)
  IN IF canonicalDocument.thrown THEN Thrown
     ELSE Returned(hash(JSONstringify(canonicalDocument.value)))

\* SigningService.getCanonicalDocument
getCanonicalDocument(document, options) ==
  createCanonicalObject(document, options)

\* SigningService.getSignedFields
getSignedFields(options) == SortNames(criticalFields(fieldSelector(options)))

\* SigningService.signDocument
signDocument(document, privateKey, options, now) ==
  LET messageHash == createDocumentHash(document, options)
  IN IF messageHash.thrown \/ privateKey \notin PrivateKeys THEN Thrown
     ELSE Returned([signature |-> sign(privateKey, messageHash.value),
                    publicKey |-> getPublicKeyFromPrivate(privateKey),
                    algorithm |-> "secp256k1",
                    timestamp |-> now])

\* sig.publicKey && typeof sig.publicKey === 'string' && sig.publicKey.trim() !== ''
hasValidPublicKey(sig) == sig.publicKey \notin {"", " ", "null"}

\* signaturePasses that trusts the embedded public key
signaturePassesEmbedded(sig, messageHash, trustedPublicKeys) ==
  verify(sig.publicKey, messageHash, sig.signature)

\* signaturePasses without the scan over the trusted keys
signaturePassesNoFallback(sig, messageHash, trustedPublicKeys) ==
  IF hasValidPublicKey(sig) /\ sig.publicKey \in trustedPublicKeys
    THEN verify(sig.publicKey, messageHash, sig.signature)
  ELSE FALSE

\* the callback of signatures.every in verifyDocument
signaturePasses(sig, messageHash, trustedPublicKeys) ==
  IF hasValidPublicKey(sig) /\ sig.publicKey \in trustedPublicKeys
    THEN verify(sig.publicKey, messageHash, sig.signature)
  ELSE \E trustedKey \in trustedPublicKeys :
          verify(trustedKey, messageHash, sig.signature)

\* signaturesToCheck that checks the argument next to document.signatures
signaturesToCheckWithArgument(document, signature) ==
  IF document.hasSignatures THEN Append(document.signatures, signature)
  ELSE <<signature>>

\* signaturesToCheck that falls back to the argument for an empty array
signaturesToCheckNonEmpty(document, signature) ==
  IF document.hasSignatures /\ Len(document.signatures) > 0
    THEN document.signatures
  ELSE <<signature>>

\* const signatures = document.signatures || [signature]
signaturesToCheck(document, signature) ==
  IF document.hasSignatures THEN document.signatures ELSE <<signature>>

\* effectiveConfig that spreads the argument over the persisted config
effectiveConfigMerged(securityConfig, file) ==
  LET loadedConfig == IF securityConfig.given
                        THEN Spread(loadConfig(file), securityConfig.config)
                      ELSE loadConfig(file)
  IN Spread(DEFAULT_SECURITY_CONFIG, loadedConfig)

\* securityConfig ?? SecurityConfigManager.loadConfig(), spread over the defaults
effectiveConfig(securityConfig, file) ==
  LET loadedConfig == IF securityConfig.given THEN securityConfig.config
                      ELSE loadConfig(file)
  IN Spread(DEFAULT_SECURITY_CONFIG, loadedConfig)

\* belowMinimum that is off by one
belowMinimumOffByOne(signatures, config) ==
  Len(signatures) + 1 < config.minimumSignatures

\* signatures.length < (config.minimumSignatures ?? 1)
belowMinimum(signatures, config) == Len(signatures) < config.minimumSignatures

\* allSignaturesPass with some in place of every
someSignaturePasses(signatures, messageHash, trustedPublicKeys) ==
  \E i \in 1..Len(signatures) :
     signaturePasses(signatures[i], messageHash, trustedPublicKeys)

\* signatures.every(...)
allSignaturesPass(signatures, messageHash, trustedPublicKeys) ==
  \A i \in 1..Len(signatures) :
     signaturePasses(signatures[i], messageHash, trustedPublicKeys)

\* verifyDocumentWeb that checks document.signatures when present
verifyDocumentWebList(document, signature, options) ==
  LET messageHash == createDocumentHash(document, options)
      signatures == signaturesToCheck(document, signature)
  IN IF messageHash.thrown THEN Thrown
     ELSE Returned(\A i \in 1..Len(signatures) :
                      verify(signatures[i].publicKey, messageHash.value,
                             signatures[i].signature))

\* SigningService.verifyDocument of the web package: the embedded key only
verifyDocumentWeb(document, signature, options) ==
  LET messageHash == createDocumentHash(document, options)
  IN IF messageHash.thrown THEN Thrown
     ELSE Returned(verify(signature.publicKey, messageHash.value,
                          signature.signature))

\* SigningService.verifyDocument: "true", "false" or "throws"
verifyDocument(document, signature, options, securityConfig, file, dir) ==
  LET config == effectiveConfig(securityConfig, file)
      signatures == signaturesToCheck(document, signature)
  IN IF belowMinimum(signatures, config)
       THEN (IF config.allowLocalUnsigned /\ Len(signatures) = 0
               THEN "true" ELSE "false")
     ELSE LET messageHash == createDocumentHash(document, options)
              trustedPublicKeys == getAllTrustedPublicKeys(dir)
          IN IF messageHash.thrown THEN "throws"
             ELSE IF allSignaturesPass(signatures, messageHash.value,
                                       trustedPublicKeys)
               THEN "true"
             ELSE "false"

(***************************************************************************)
(* State                                                                   *)
(***************************************************************************)
VARIABLES
  trustedKeysDir,   \* ~/.enact/trusted-keys: keyId -> PEM file or NoFile
  configFile,       \* ~/.enact/security/config.json
  document,         \* the document the caller holds
  options,          \* the SigningOptions the caller passes
  policy,           \* the securityConfig argument the caller passes
  signature,        \* the Signature the caller holds
  signedDocument,   \* the document as it was when signature was made
  result,           \* outcome of the last call
  edits,            \* number of field edits made by the caller
  privateKeysDir,   \* ~/.enact/private-keys: keyId -> PEM file or NoFile
  metadataFiles,    \* keyId -> whether <keyId>.meta exists
  lastCall,         \* the call of the last step, when it is a store call or
                    \* a call without side effect, and what it returned
  revoked,          \* keys whose public key removeKey deleted since the last
                    \* generate or import call
  keyInput,         \* the key or PEM text the caller hands to the PEM codec
  verifyRun,        \* the verifyDocument call in progress: what it has read
                    \* and which signatures it has judged
  pathFiles         \* the files of ~/.enact/trusted-keys and
                    \* ~/.enact/private-keys by path, when keyIds may name
                    \* a path: path -> file or NoFile

vars == << trustedKeysDir, configFile, document, options, policy, signature,
           signedDocument, result, edits, privateKeysDir, metadataFiles,
           lastCall, revoked, keyInput, verifyRun, pathFiles >>

\* the private-key directory, the metadata files, the revocation record, the
\* caller's codec input, the verifyDocument call in progress and the files
\* by path
keyFiles ==
  << privateKeysDir, metadataFiles, revoked, keyInput, verifyRun, pathFiles >>

\* no key or PEM text at hand
NoInput == [kind |-> "none"]

\* no verifyDocument call in progress
NotVerifying == [phase |-> "idle"]

\* the files are not kept by path
NoPaths == <<>>

Call(op, keyId, thrown, value) ==
  [keyId |-> keyId, op |-> op, thrown |-> thrown, value |-> value]

NoCall == Call("none", 0, FALSE, <<>>)

\* return values: a boolean, a mapping, a list of names; <<>> is none
Flag(b) == [flag |-> b]
Mapping(entries) == [object |-> entries]
Names(list) == [list |-> list]

(***************************************************************************)
(* Inputs                                                                  *)
(***************************************************************************)
Document(fields) == [fields |-> fields, hasSignatures |-> FALSE, signatures |-> <<>>]

\* testDocument of the trusted-key and security-config tests
testDocument ==
  Document([name |-> Str("a"), description |-> Str("a"),
            command |-> Str("a"), enact |-> Str("a")])

\* a tool with an empty optional field and a field outside every default set
toolDocument ==
  Document([name |-> Str("a"), description |-> Str("a"),
            command |-> Str("a"), version |-> Str(""), license |-> Str("a")])

\* scenario 2 of the specification
commandDocument == Document([name |-> Str("a"), command |-> Str("a")])

BaseDocuments == {toolDocument, commandDocument}

EnactDefaults == Options(TRUE, FALSE, <<>>, <<>>, <<>>)
CommandOnly == Options(FALSE, TRUE, <<"command">>, <<>>, <<>>)
CommandVersion == Options(TRUE, TRUE, <<"version", "command">>, <<>>, <<"license">>)
EnactTrimmed == Options(TRUE, FALSE, <<>>, <<"description">>, <<"license">>)

OptionSet == {EnactDefaults, CommandOnly, CommandVersion, EnactTrimmed}

EditFields == {"command", "version", "license"}
EditValues == {Str("b"), Str(""), Null, EmptyArray}

\* dummySignature of the security-config tests
dummySignature ==
  [signature |-> InvalidSignatureHex, publicKey |-> "",
   algorithm |-> "secp256k1", timestamp |-> 0]

\* publicKey hints a producer may leave: none, or the first key's
HintValues == {"", PublicKeyHex[1]}

\* each keyId holds the public key of its own pair, or nothing
StoreStates ==
  {dir \in [KeyIds -> {NoFile} \cup {hexToPem(PublicKeyHex[k]) : k \in PrivateKeys}] :
     \A id \in KeyIds : dir[id] \in {NoFile, hexToPem(PublicKeyHex[id])}}

\* values of Date.now()
Clock == 1..MaxClock

MinimumValues == 0..MaxMinimumSignatures

FullConfigs ==
  {[allowLocalUnsigned |-> a, minimumSignatures |-> m] :
     a \in BOOLEAN, m \in MinimumValues}

PartialConfigs ==
  {<<>>} \cup {[allowLocalUnsigned |-> a] : a \in BOOLEAN}
         \cup {[minimumSignatures |-> m] : m \in MinimumValues}
         \cup FullConfigs

\* the trusted keys were imported with importPublicKey: no private key files
ImportedOnly ==
  /\ privateKeysDir = [id \in KeyIds |-> NoFile]
  /\ metadataFiles = [id \in KeyIds |-> trustedKeysDir[id] # NoFile]
  /\ lastCall = NoCall
  /\ revoked = {}
  /\ keyInput = NoInput
  /\ verifyRun = NotVerifying
  /\ pathFiles = NoPaths

\* includeFields lists: one field, two fields in both orders, a list with a
\* field that is empty in toolDocument
IncludeLists ==
  { <<"command">>, <<"command", "name">>, <<"name", "command">>,
    <<"command", "version">> }

IncludeOptions(include) == Options(FALSE, TRUE, include, <<>>, <<>>)

GenericDefaults == Options(FALSE, FALSE, <<>>, <<>>, <<>>)
SignaturesIncluded == Options(FALSE, TRUE, <<"command", "signatures">>, <<>>, <<>>)
SignaturesAdditional == Options(TRUE, FALSE, <<>>, <<>>, <<"signatures">>)

SelectOptions ==
  OptionSet \cup {IncludeOptions(l) : l \in IncludeLists}
            \cup {GenericDefaults, SignaturesIncluded, SignaturesAdditional}

\* a tool whose optional fields hold 0, false and each kind of empty value
sparseDocument ==
  Document([name |-> Str("a"), description |-> Str("a"), command |-> Str("a"),
            timeout |-> Num(0), enact |-> Bool(FALSE), version |-> Null,
            from |-> Str(""), env |-> EmptyObject, annotations |-> EmptyArray])

\* a tool that already carries a signature entry
signedToolDocument ==
  [toolDocument EXCEPT !.hasSignatures = TRUE, !.signatures = <<dummySignature>>]

SelectDocuments ==
  {toolDocument, commandDocument, sparseDocument, signedToolDocument}

\* a config that validateConfig rejects
NegativeMinimum == [minimumSignatures |-> -1]

\* the files importConfig may be pointed at
ImportSources ==
  {MissingConfig, CorruptConfig}
    \cup {JsonConfig(c) : c \in PartialConfigs \cup {NegativeMinimum}}

NotGiven == [given |-> FALSE, config |-> <<>>]
Given(c) == [given |-> TRUE, config |-> c]

(***************************************************************************)
(* Operations                                                              *)
(***************************************************************************)
\* SigningService.signDocument on the caller's document
SignDocument(privateKey, now) ==
  LET r == signDocument(document, privateKey, options, now)
  IN /\ IF r.thrown
          THEN /\ result' = "signThrows"
               /\ UNCHANGED << signature, signedDocument >>
          ELSE /\ result' = "none"
               /\ signature' = r.value
               /\ signedDocument' = document
     /\ lastCall' = Call("signDocument", 0, r.thrown, <<>>)
     /\ UNCHANGED << trustedKeysDir, configFile, document, options, policy, edits >>
     /\ UNCHANGED keyFiles

\* the caller appends the signature to document.signatures
AppendSignature ==
  /\ Len(document.signatures) < MaxSignatures
  /\ document' = [document EXCEPT !.hasSignatures = TRUE,
                                  !.signatures = Append(@, signature)]
  /\ result' = "none"
  /\ lastCall' = NoCall
  /\ UNCHANGED << trustedKeysDir, configFile, options, policy, signature,
                  signedDocument, edits >>
  /\ UNCHANGED keyFiles

\* the caller gives the document an empty signatures array
AttachEmptySignatures ==
  /\ ~document.hasSignatures
  /\ document' = [document EXCEPT !.hasSignatures = TRUE]
  /\ result' = "none"
  /\ lastCall' = NoCall
  /\ UNCHANGED << trustedKeysDir, configFile, options, policy, signature,
                  signedDocument, edits >>
  /\ UNCHANGED keyFiles

\* a producer in between replaces the publicKey hint of a signature
SetPublicKey(publicKey) ==
  /\ signature.signature # InvalidSignatureHex
  /\ signature.publicKey # publicKey
  /\ signature' = [signature EXCEPT !.publicKey = publicKey]
  /\ result' = "none"
  /\ lastCall' = NoCall
  /\ UNCHANGED << trustedKeysDir, configFile, document, options, policy,
                  signedDocument, edits >>
  /\ UNCHANGED keyFiles

\* the caller changes one field of the signed document
SetField(name, value) ==
  /\ edits < MaxEdits
  /\ signature.signature # InvalidSignatureHex
  /\ Get(document, name) # value
  /\ document' = [document EXCEPT !.fields =
                    [n \in DOMAIN @ \cup {name} |-> IF n = name THEN value ELSE @[n]]]
  /\ edits' = edits + 1
  /\ result' = "none"
  /\ lastCall' = NoCall
  /\ UNCHANGED << trustedKeysDir, configFile, options, policy, signature,
                  signedDocument >>
  /\ UNCHANGED keyFiles

\* the caller deletes one field of the signed document
DeleteField(name) ==
  /\ edits < MaxEdits
  /\ signature.signature # InvalidSignatureHex
  /\ name \in DOMAIN document.fields
  /\ document' = [document EXCEPT !.fields = [n \in DOMAIN @ \ {name} |-> @[n]]]
  /\ edits' = edits + 1
  /\ result' = "none"
  /\ lastCall' = NoCall
  /\ UNCHANGED << trustedKeysDir, configFile, options, policy, signature,
                  signedDocument >>
  /\ UNCHANGED keyFiles

\* SigningService.verifyDocument(document, signature, options, policy)
VerifyDocument ==
  /\ result' = verifyDocument(document, signature, options, policy,
                              configFile, trustedKeysDir)
  /\ \E written \in BOOLEAN :
       configFile' = IF policy.given THEN configFile
                     ELSE configFileAfterLoad(configFile, written)
  /\ lastCall' = NoCall
  /\ UNCHANGED << trustedKeysDir, document, options, policy, signature,
                  signedDocument, edits >>
  /\ UNCHANGED keyFiles

\* the three directories' files as one key store
KeyStoreNow == KeyStore(trustedKeysDir, privateKeysDir, metadataFiles)

\* the writeFileSync / unlinkSync call of a key-store operation that throws
NoFailure == 0
WriteFailures == 0..3
PublicWriteFailures == 0..2
UnlinkFailures == 0..3

\* the callers of the key store leave everything else alone
KeyStoreCall(store, call) ==
  /\ trustedKeysDir' = store.trusted
  /\ privateKeysDir' = store.private
  /\ metadataFiles' = store.meta
  /\ lastCall' = call
  /\ result' = "none"
  /\ UNCHANGED << configFile, document, options, policy, signature,
                  signedDocument, edits, keyInput, verifyRun, pathFiles >>

\* CryptoUtils.generateKeyPair draws a scalar that no stored file holds
Fresh(privateKey) ==
  \A id \in KeyIds :
     /\ trustedKeysDir[id] # hexToPem(getPublicKeyFromPrivate(privateKey))
     /\ privateKeysDir[id] # hexToPemPrivate(privateKey)

\* KeyManager.generateAndStoreKey(keyId)
GenerateAndStoreKey(keyId, privateKey, failAt) ==
  LET r == generateAndStoreKey(KeyStoreNow, keyId, privateKey, failAt)
  IN /\ Fresh(privateKey)
     /\ KeyStoreCall(r.store, Call("generateAndStoreKey", keyId, r.thrown, <<>>))
     /\ revoked' = {}

\* KeyManager.importKey(keyId, privateKey)
ImportKey(keyId, privateKey, failAt) ==
  LET r == importKey(KeyStoreNow, keyId, privateKey, failAt)
  IN /\ KeyStoreCall(r.store, Call("importKey", keyId, r.thrown, <<>>))
     /\ revoked' = {}

\* KeyManager.importPublicKey(keyId, publicKey)
ImportPublicKey(keyId, publicKey, failAt) ==
  LET r == importPublicKey(KeyStoreNow, keyId, publicKey, failAt)
  IN /\ KeyStoreCall(r.store, Call("importPublicKey", keyId, r.thrown, <<>>))
     /\ revoked' = {}

\* KeyManager.removeKey(keyId); revoked records the keys whose public key file
\* the call removed
RemoveKey(keyId, failAt) ==
  LET r == removeKey(KeyStoreNow, keyId, failAt)
      gone == r.removed \/ r.store.trusted[keyId] = NoFile
  IN /\ KeyStoreCall(r.store, Call("removeKey", keyId, FALSE, Flag(r.removed)))
     /\ revoked' = revoked \cup
          {[keyId |-> keyId, key |-> k] : k \in
             {j \in PrivateKeys :
                gone /\ trustedKeysDir[keyId] = hexToPem(PublicKeyHex[j])}}

\* a call without side effect: only its return value is recorded
PureCall(call) ==
  /\ lastCall' = call
  /\ result' = "none"
  /\ UNCHANGED << trustedKeysDir, configFile, document, options, policy,
                  signature, signedDocument, edits >>
  /\ UNCHANGED keyFiles

\* SigningService.getCanonicalDocument(document, options)
GetCanonicalDocument ==
  LET r == getCanonicalDocument(document, options)
  IN PureCall(Call("getCanonicalDocument", 0, r.thrown,
                   IF r.thrown THEN <<>> ELSE Mapping(r.value)))

\* SigningService.createDocumentHash(document, options)
CreateDocumentHash ==
  LET r == createDocumentHash(document, options)
  IN PureCall(Call("createDocumentHash", 0, r.thrown, r.value))

\* SigningService.getSignedFields(options)
GetSignedFields ==
  PureCall(Call("getSignedFields", 0, FALSE, Names(getSignedFields(options))))

\* SigningService.verifyDocument(document, signature, options) of the web
\* package
VerifyDocumentWeb ==
  LET r == verifyDocumentWeb(document, signature, options)
  IN PureCall(Call("verifyDocumentWeb", 0, r.thrown,
                   IF r.thrown THEN <<>> ELSE Flag(r.value)))

\* the caller passes other options to the next call
SetOptions(o) ==
  /\ o # options
  /\ options' = o
  /\ lastCall' = NoCall
  /\ result' = "none"
  /\ UNCHANGED << trustedKeysDir, configFile, document, policy, signature,
                  signedDocument, edits >>
  /\ UNCHANGED keyFiles

\* the callers of the config store leave everything else alone
ConfigStoreCall(file, call) ==
  /\ configFile' = file
  /\ lastCall' = call
  /\ result' = "none"
  /\ UNCHANGED << trustedKeysDir, document, options, policy, signature,
                  signedDocument, edits >>
  /\ UNCHANGED keyFiles

\* SecurityConfigManager.saveConfig(config)
SaveConfig(config, written) ==
  LET r == saveConfig(configFile, config, written)
  IN ConfigStoreCall(r.file, Call("saveConfig", 0, FALSE, Flag(r.value)))

\* SecurityConfigManager.updateConfig(updates)
UpdateConfig(updates, initWritten, written) ==
  LET r == updateConfig(configFile, updates, initWritten, written)
  IN ConfigStoreCall(r.file, Call("updateConfig", 0, FALSE, r.value))

\* SecurityConfigManager.resetToDefaults()
ResetToDefaults(written, initWritten) ==
  LET r == resetToDefaults(configFile, written, initWritten)
  IN ConfigStoreCall(r.file, Call("resetToDefaults", 0, FALSE, r.value))

\* SecurityConfigManager.importConfig(filePath)
ImportConfig(source, written) ==
  LET r == importConfig(configFile, source, written)
  IN ConfigStoreCall(r.file, Call("importConfig", 0, FALSE, r.value))

(***************************************************************************)
(* Specification of trust and threshold: one document, every store, every  *)
(* policy, signature lists built from signatures of all keys               *)
(***************************************************************************)
Init ==
  /\ trustedKeysDir \in StoreStates
  /\ \/ /\ policy = NotGiven
        /\ configFile \in {MissingConfig,
                            JsonConfig([allowLocalUnsigned |-> FALSE,
                                        minimumSignatures |-> MaxMinimumSignatures])}
     \/ /\ policy \in {Given(c) : c \in FullConfigs}
        /\ configFile = MissingConfig
  /\ options = EnactDefaults
  /\ document = testDocument
  /\ signature = dummySignature
  /\ signedDocument = document
  /\ result = "none"
  /\ edits = 0
  /\ ImportedOnly

Next ==
  \/ \E k \in PrivateKeys : SignDocument(k, 1)
  \/ \E pk \in HintValues : SetPublicKey(pk)
  \/ AppendSignature
  \/ AttachEmptySignatures
  \/ VerifyDocument

Spec == Init /\ [][Next]_vars

(***************************************************************************)
(* Specification of field selection: several documents and options, field  *)
(* edits between signing and verifying                                     *)
(***************************************************************************)
InitFields ==
  /\ trustedKeysDir \in {dir \in StoreStates : dir[1] # NoFile}
  /\ policy = NotGiven
  /\ configFile \in {MissingConfig,
                     JsonConfig([allowLocalUnsigned |-> FALSE,
                                 minimumSignatures |-> MaxMinimumSignatures])}
  /\ options \in OptionSet
  /\ document \in BaseDocuments
  /\ signature = dummySignature
  /\ signedDocument = document
  /\ result = "none"
  /\ edits = 0
  /\ ImportedOnly

NextFields ==
  \/ \E k \in PrivateKeys : SignDocument(k, 1)
  \/ \E name \in EditFields, value \in EditValues : SetField(name, value)
  \/ \E name \in EditFields : DeleteField(name)
  \/ AttachEmptySignatures
  \/ VerifyDocument

SpecFields == InitFields /\ [][NextFields]_vars

(***************************************************************************)
(* Specification of policy resolution: every persisted config against      *)
(* every policy argument                                                   *)
(***************************************************************************)
InitConfig ==
  /\ trustedKeysDir \in StoreStates
  /\ policy \in {NotGiven} \cup {Given(c) : c \in PartialConfigs}
  /\ configFile \in {MissingConfig, CorruptConfig}
                      \cup {JsonConfig(c) : c \in PartialConfigs}
  /\ options = CommandOnly
  /\ document = commandDocument
  /\ signature = dummySignature
  /\ signedDocument = document
  /\ result = "none"
  /\ edits = 0
  /\ ImportedOnly

NextConfig ==
  \/ \E k \in PrivateKeys, now \in Clock : SignDocument(k, now)
  \/ AttachEmptySignatures
  \/ VerifyDocument

SpecConfig == InitConfig /\ [][NextConfig]_vars

(***************************************************************************)
(* Specification of the key store: generate, import and remove with write  *)
(* and unlink failures                                                     *)
(***************************************************************************)
InitKeys ==
  /\ trustedKeysDir = [id \in KeyIds |-> NoFile]
  /\ privateKeysDir = [id \in KeyIds |-> NoFile]
  /\ metadataFiles = [id \in KeyIds |-> FALSE]
  /\ lastCall = NoCall
  /\ revoked = {}
  /\ keyInput = NoInput
  /\ verifyRun = NotVerifying
  /\ pathFiles = NoPaths
  /\ policy = NotGiven
  /\ configFile = JsonConfig(DEFAULT_SECURITY_CONFIG)
  /\ options = EnactDefaults
  /\ document = testDocument
  /\ signature = dummySignature
  /\ signedDocument = document
  /\ result = "none"
  /\ edits = 0

NextKeys ==
  \/ \E keyId \in KeyIds, k \in PrivateKeys, failAt \in WriteFailures :
        GenerateAndStoreKey(keyId, k, failAt)
  \/ \E keyId \in KeyIds, k \in PrivateKeys \cup {0}, failAt \in WriteFailures :
        ImportKey(keyId, k, failAt)
  \/ \E keyId \in KeyIds, k \in PrivateKeys, failAt \in PublicWriteFailures :
        ImportPublicKey(keyId, PublicKeyHex[k], failAt)
  \/ \E keyId \in KeyIds, failAt \in UnlinkFailures : RemoveKey(keyId, failAt)

SpecKeys == InitKeys /\ [][NextKeys]_vars

(***************************************************************************)
(* Specification of trust over time: keys are stored and removed between   *)
(* signing and verifying                                                   *)
(***************************************************************************)
NextTrust ==
  \/ \E keyId \in KeyIds, k \in PrivateKeys :
        GenerateAndStoreKey(keyId, k, NoFailure)
  \/ \E keyId \in KeyIds, k \in PrivateKeys : ImportKey(keyId, k, NoFailure)
  \/ \E keyId \in KeyIds, k \in PrivateKeys :
        ImportPublicKey(keyId, PublicKeyHex[k], NoFailure)
  \/ \E keyId \in KeyIds, failAt \in UnlinkFailures : RemoveKey(keyId, failAt)
  \/ \E k \in PrivateKeys : SignDocument(k, 1)
  \/ VerifyDocument

SpecTrust == InitKeys /\ [][NextTrust]_vars

(***************************************************************************)
(* Specification of policy reload: the persisted config is saved, updated, *)
(* reset and imported between verify calls made without policy argument    *)
(***************************************************************************)
InitReload ==
  /\ trustedKeysDir \in {dir \in StoreStates : dir[1] # NoFile}
  /\ policy = NotGiven
  /\ configFile = MissingConfig
  /\ options = CommandOnly
  /\ document = commandDocument
  /\ signature = dummySignature
  /\ signedDocument = document
  /\ result = "none"
  /\ edits = 0
  /\ ImportedOnly

NextReload ==
  \/ \E c \in PartialConfigs, written \in BOOLEAN : SaveConfig(c, written)
  \/ \E u \in PartialConfigs, initWritten \in BOOLEAN, written \in BOOLEAN :
        UpdateConfig(u, initWritten, written)
  \/ \E written \in BOOLEAN, initWritten \in BOOLEAN :
        ResetToDefaults(written, initWritten)
  \/ \E source \in ImportSources, written \in BOOLEAN :
        ImportConfig(source, written)
  \/ \E k \in PrivateKeys : SignDocument(k, 1)
  \/ AttachEmptySignatures
  \/ VerifyDocument

SpecReload == InitReload /\ [][NextReload]_vars

(***************************************************************************)
(* Specification of field selection across calls: documents with every     *)
(* kind of value, options that change between signing and verifying, and   *)
(* the calls without side effect                                           *)
(***************************************************************************)
InitSelect ==
  /\ trustedKeysDir = [id \in KeyIds |->
                         IF id = 1 THEN hexToPem(PublicKeyHex[1]) ELSE NoFile]
  /\ policy = NotGiven
  /\ configFile = MissingConfig
  /\ options \in SelectOptions
  /\ document \in SelectDocuments
  /\ signature = dummySignature
  /\ signedDocument = document
  /\ result = "none"
  /\ edits = 0
  /\ ImportedOnly

NextSelect ==
  \/ \E k \in PrivateKeys : SignDocument(k, 1)
  \/ \E o \in SelectOptions : SetOptions(o)
  \/ \E pk \in HintValues : SetPublicKey(pk)
  \/ GetCanonicalDocument
  \/ CreateDocumentHash
  \/ GetSignedFields
  \/ VerifyDocumentWeb
  \/ VerifyDocument

SpecSelect == InitSelect /\ [][NextSelect]_vars

(***************************************************************************)
(* Vocabulary of the properties                                            *)
(***************************************************************************)
\* key pairs whose public key is stored in the trusted-keys directory
TrustedKeys ==
  {k \in PrivateKeys :
     \E id \in KeyIds : trustedKeysDir[id] = hexToPem(PublicKeyHex[k])}

TrustedPublicKeys == {PublicKeyHex[k] : k \in TrustedKeys}

\* the state is the one right after a verifyDocument call
Verified == result \in {"true", "false", "throws"}

\* the policy a call uses: the argument when given, else the persisted file,
\* each field falling back to the default
SourceConfig ==
  IF policy.given THEN policy.config
  ELSE IF configFile.kind = "json" THEN configFile.config
  ELSE <<>>

FieldOr(c, name) ==
  IF name \in DOMAIN c THEN c[name] ELSE DEFAULT_SECURITY_CONFIG[name]

PolicyInForce ==
  [allowLocalUnsigned |-> FieldOr(SourceConfig, "allowLocalUnsigned"),
   minimumSignatures |-> FieldOr(SourceConfig, "minimumSignatures")]

\* the fields the options select (section 4.3, steps 1 and 2)
Selected ==
  LET defaults == fieldSelector(options)
      critical == {defaults[i].name :
                     i \in {j \in 1..Len(defaults) : defaults[j].securityCritical}}
  IN (IF options.hasIncludeFields THEN Range(options.includeFields)
      ELSE critical \cup Range(options.additionalCriticalFields))
       \ Range(options.excludeFields)

\* sig is the ECDSA signature of key k over the digest of doc
MadeBy(sig, k, doc) ==
  LET digest == createDocumentHash(doc, options)
  IN ~digest.thrown /\ sig.signature = sign(k, digest.value)

\* sig verifies over the document digest against a trusted key
VerifiesTrusted(sig) == \E k \in TrustedKeys : MadeBy(sig, k, document)

\* the signatures a call checks
CheckedList ==
  IF document.hasSignatures THEN document.signatures ELSE <<signature>>

ValidCount ==
  Cardinality({i \in 1..Len(CheckedList) : VerifiesTrusted(CheckedList[i])})

\* the caller holds a signature made by signDocument over signedDocument
SignatureMade == signature.signature # InvalidSignatureHex

Signer == signature.signature.signer

\* a signature entry is accepted: a trusted key verifies it, and a trusted
\* publicKey hint names that key
Accepted(sig) ==
  \E k \in TrustedKeys :
     /\ MadeBy(sig, k, document)
     /\ sig.publicKey \in TrustedPublicKeys => sig.publicKey = PublicKeyHex[k]

\* the verdict on a list of signatures under a policy
Outcome(list, cfg) ==
  IF Len(list) < cfg.minimumSignatures
    THEN cfg.allowLocalUnsigned /\ Len(list) = 0
  ELSE \A i \in 1..Len(list) : Accepted(list[i])

(***************************************************************************)
(* C1  Sign/verify round trip                                              *)
(***************************************************************************)
\* the held signature is signDocument(document, k, options) for a trusted k
RoundTripCase(k) ==
  /\ Verified
  /\ k \in TrustedKeys
  /\ MadeBy(signature, k, document)
  /\ signature.publicKey = PublicKeyHex[k]

\* C1 as stated: for every trusted key pair, document with all required
\* selected fields and options, verify(D, sign(D, K.priv, O), O) is true.
C1_Original == \A k \in PrivateKeys : RoundTripCase(k) => result = "true"

\* C1 amended: the round trip returns true when, in addition, the document
\* carries no signatures field of its own and the policy in force asks for
\* at most one signature.
C1_RoundTrip ==
  \A k \in PrivateKeys :
     /\ RoundTripCase(k)
     /\ ~document.hasSignatures
     /\ PolicyInForce.minimumSignatures <= 1
     => result = "true"

C1_Witness ==
  /\ \E k \in PrivateKeys : RoundTripCase(k)
  /\ ~document.hasSignatures
  /\ PolicyInForce.minimumSignatures <= 1
  /\ options = EnactTrimmed
  /\ result = "true"

(***************************************************************************)
(* C2  Fail closed on untrusted signers                                    *)
(***************************************************************************)
UntrustedValid ==
  /\ Verified
  /\ ~document.hasSignatures
  /\ \E k \in PrivateKeys \ TrustedKeys : MadeBy(signature, k, document)

C3_Original ==
  /\ Verified
  /\ PolicyInForce.minimumSignatures >= 1
  /\ result = "true"
  => ValidCount >= PolicyInForce.minimumSignatures

\* C3 amended: ... or allowLocalUnsigned is true and the document carries an
\* empty signatures list.
C3_Threshold ==
  /\ Verified
  /\ PolicyInForce.minimumSignatures >= 1
  /\ result = "true"
  => \/ ValidCount >= PolicyInForce.minimumSignatures
     \/ /\ PolicyInForce.allowLocalUnsigned
        /\ document.hasSignatures
        /\ Len(document.signatures) = 0

C3_Witness ==
  /\ Verified
  /\ PolicyInForce.minimumSignatures = 2
  /\ ~PolicyInForce.allowLocalUnsigned
  /\ ValidCount = 2
  /\ result = "true"

C5_Original ==
  /\ Verified
  /\ SignatureMade
  /\ \E f \in Selected : Get(document, f) # Get(signedDocument, f)
  => result # "true"

\* empty values (null, '', [], {}) and an absent field are one value
Normal(value) == IF isEmpty(value) THEN Undefined ELSE value

\* C5 amended: a signature made over D never verifies over a D' that has no
\* signatures field of its own and whose value of some selected field
\* differs from D's other than by one empty value replacing another.
C5_TamperEvidence ==
  /\ Verified
  /\ SignatureMade
  /\ ~document.hasSignatures
  /\ \E f \in Selected :
        Normal(Get(document, f)) # Normal(Get(signedDocument, f))
  => result # "true"

C5_Witness ==
  /\ Verified
  /\ SignatureMade
  /\ ~document.hasSignatures
  /\ Signer \in TrustedKeys
  /\ PolicyInForce.minimumSignatures <= 1
  /\ Get(document, "license") # Get(signedDocument, "license")
  /\ "license" \in Selected
  /\ result = "false"

(***************************************************************************)
(* C6  Field locality                                                      *)
(***************************************************************************)
SameOnSelected ==
  \A f \in Selected : Get(document, f) = Get(signedDocument, f)

\* C6: when D' equals D on every selected field, signing D' gives the same
\* signature string as signing D, the signature made over D verifies over
\* the digest of D', and trusted-host verify of D' accepts it.
C6_FieldLocality ==
  SignatureMade /\ SameOnSelected =>
    LET again == signDocument(document, Signer, options, MaxClock)
    IN /\ ~again.thrown
       /\ again.value.signature = signature.signature
       /\ verify(signature.publicKey, createDocumentHash(document, options).value,
                 signature.signature)
       /\ ( /\ Verified
            /\ ~document.hasSignatures
            /\ Signer \in TrustedKeys
            /\ PolicyInForce.minimumSignatures <= 1
            => result = "true" )

C6_Witness ==
  /\ Verified
  /\ SignatureMade
  /\ SameOnSelected
  /\ document.fields # signedDocument.fields
  /\ options = CommandVersion
  /\ result = "true"

(***************************************************************************)
(* C7  Fallback soundness                                                  *)
(***************************************************************************)
SingleFallback ==
  /\ Verified
  /\ Len(CheckedList) = 1
  /\ CheckedList[1].publicKey \notin TrustedPublicKeys

\* C7 as stated: for a single signature whose publicKey is empty or not a
\* trusted key, verify is true iff some trusted key verifies the signature.
C7_Original ==
  SingleFallback => (result = "true" <=> VerifiesTrusted(CheckedList[1]))

\* C7 amended: ... under a policy in force with minimumSignatures at most 1.
C7_Fallback ==
  SingleFallback /\ PolicyInForce.minimumSignatures <= 1
  => (result = "true" <=> VerifiesTrusted(CheckedList[1]))

C7_Witness ==
  /\ SingleFallback
  /\ CheckedList[1].publicKey = ""
  /\ Cardinality(TrustedKeys) = NumKeys
  /\ result = "true"

(***************************************************************************)
(* C8  Choice of the signature list                                        *)
(***************************************************************************)
ClaimedList ==
  IF document.hasSignatures /\ Len(document.signatures) > 0
    THEN document.signatures
  ELSE <<signature>>

\* C8 as stated: document.signatures is checked when present and non-empty,
\* in every other case exactly the signature argument.
C8_Original == Verified => (result = "true" <=> Outcome(ClaimedList, PolicyInForce))

\* C8 amended: document.signatures is checked whenever the field is present,
\* also when it is empty; the signature argument only when it is absent.
C8_ListChoice ==
  Verified =>
    (result = "true" <=>
       Outcome(IF document.hasSignatures THEN document.signatures
               ELSE <<signature>>, PolicyInForce))

C8_Witness ==
  /\ Verified
  /\ document.hasSignatures
  /\ Len(document.signatures) = 0
  /\ PolicyInForce.minimumSignatures = 1
  /\ ~Accepted(signature)
  /\ result = "true"

(***************************************************************************)
(* C9  Effective policy                                                    *)
(***************************************************************************)
PersistedConfig == IF configFile.kind = "json" THEN configFile.config ELSE <<>>

ArgumentConfig == IF policy.given THEN policy.config ELSE <<>>

PolicyClaimed ==
  [name \in {"allowLocalUnsigned", "minimumSignatures"} |->
     IF name \in DOMAIN ArgumentConfig THEN ArgumentConfig[name]
     ELSE IF name \in DOMAIN PersistedConfig THEN PersistedConfig[name]
     ELSE DEFAULT_SECURITY_CONFIG[name]]

\* C9 as stated: argument over persisted config over defaults, field by
\* field.
C9_Original == Verified => (result = "true" <=> Outcome(CheckedList, PolicyClaimed))

\* C9 amended: when a policy argument is given the persisted config is not
\* consulted: a field missing from the argument takes the default; the
\* persisted config (over the defaults) is used only without an argument.
C9_EffectivePolicy ==
  Verified =>
    LET cfg == IF policy.given
                 THEN [name \in DOMAIN DEFAULT_SECURITY_CONFIG |->
                         FieldOr(policy.config, name)]
                 ELSE [name \in DOMAIN DEFAULT_SECURITY_CONFIG |->
                         FieldOr(PersistedConfig, name)]
    IN result = "true" <=> Outcome(CheckedList, cfg)

C9_Witness ==
  /\ Verified
  /\ policy.given
  /\ DOMAIN policy.config = {"minimumSignatures"}
  /\ configFile.kind = "json"
  /\ "allowLocalUnsigned" \in DOMAIN configFile.config
  /\ ~configFile.config.allowLocalUnsigned
  /\ document.hasSignatures
  /\ policy.config.minimumSignatures = 1
  /\ result = "true"

(***************************************************************************)
(* C10  verify never surfaces an error                                     *)
(***************************************************************************)
\* C10: for every document, signature, options and policy, verify ends with
\* true or false and raises nothing.
C10_NeverThrows == result # "throws"

(***************************************************************************)
(* C11  Removing trust takes effect                                        *)
(***************************************************************************)
\* the call verified the held signature, which key e.key made over the
\* document; removeKey(e.keyId) removed that key's public key and no generate
\* or import call was made since
RevokedCase(e) ==
  /\ Verified
  /\ e \in revoked
  /\ ~document.hasSignatures
  /\ MadeBy(signature, e.key, document)

\* the public key of e.key is stored under a keyId other than the removed one
StoredElsewhere(e) ==
  \E id \in KeyIds \ {e.keyId} :
     trustedKeysDir[id] = hexToPem(PublicKeyHex[e.key])

\* C11 as stated: once removeKey(keyId) has removed a trusted key, every later
\* verify of a signature made with that key returns false, until a generate
\* or import call is made.
C11_Original ==
  \A e \in revoked : RevokedCase(e) => result = "false"

\* C11 amended: ... returns false provided no other keyId stores the same
\* public key.
C11_RemoveTakesEffect ==
  \A e \in revoked : (RevokedCase(e) /\ ~StoredElsewhere(e)) => result = "false"

\* a key was stored and trusted, then removed, and its signature is rejected
C11_Witness ==
  \E e \in revoked :
     /\ RevokedCase(e)
     /\ ~StoredElsewhere(e)
     /\ signature.publicKey = PublicKeyHex[e.key]
     /\ TrustedKeys # {}
     /\ result = "false"

(***************************************************************************)
(* C12  Reload on every verify                                             *)
(***************************************************************************)
\* the config persisted in the file, each field falling back to the default
PersistedPolicy ==
  [allowLocalUnsigned |-> FieldOr(PersistedConfig, "allowLocalUnsigned"),
   minimumSignatures |-> FieldOr(PersistedConfig, "minimumSignatures")]

\* C12: every verify step made without policy argument returns the verdict of
\* the config persisted when the call is made (the file before the step),
\* whatever save, update, reset and import calls and verify calls came before.
C12_ReloadOnEveryVerify ==
  [][(result' \in {"true", "false"} /\ ~policy.given)
       => (result' = "true" <=> Outcome(CheckedList, PersistedPolicy))]_vars

\* a verify is rejected under a threshold that a config call persisted,
\* where the defaults in force at the start would have accepted
C12_Witness ==
  /\ Verified
  /\ ~policy.given
  /\ configFile.kind = "json"
  /\ configFile.config.minimumSignatures = MaxMinimumSignatures
  /\ Outcome(CheckedList, DEFAULT_SECURITY_CONFIG)
  /\ result = "false"

(***************************************************************************)
(* C13  Field-selection mismatch                                           *)
(***************************************************************************)
\* the held signature is signDocument(document, k, {includeFields: A}) of a
\* trusted key, and the call verified it with {includeFields: B}
MismatchCase(A, B) ==
  /\ Verified
  /\ result # "throws"
  /\ ~document.hasSignatures
  /\ options = IncludeOptions(B)
  /\ \E k \in TrustedKeys :
        LET digest == createDocumentHash(document, IncludeOptions(A))
        IN /\ ~digest.thrown
           /\ signature.signature = sign(k, digest.value)

\* the fields of a list that have a non-empty value in the document
NonEmptyOf(list) == {f \in Range(list) : isNonEmpty(Get(document, f))}

EmptyValues == {Undefined, Null, Str(""), EmptyArray, EmptyObject}

\* the values 0 and false
KeptValues == {Num(0), Bool(FALSE)}

\* the last call returned a canonical mapping: getCanonicalDocument returned
\* it, or signDocument signed its JSON text
CanonicalEntries ==
  IF lastCall.op = "getCanonicalDocument" /\ ~lastCall.thrown
    THEN {lastCall.value.object[i] : i \in 1..Len(lastCall.value.object)}
  ELSE IF lastCall.op = "signDocument" /\ ~lastCall.thrown
    THEN LET text == signature.signature.over.sha256
         IN {<<text[i].key, text[i].json>> : i \in 1..Len(text)}
  ELSE {}

CanonicalReturned ==
  /\ lastCall.op \in {"getCanonicalDocument", "signDocument"}
  /\ ~lastCall.thrown

\* C14: no value of the canonical mapping is null, '', [] or {}, while a
\* selected field holding 0 or false is in the mapping with that value.
C14_EmptyExclusion ==
  CanonicalReturned =>
    /\ \A entry \in CanonicalEntries : entry[2] \notin EmptyValues
    /\ \A f \in Selected :
         Get(document, f) \in KeptValues
           => <<f, Get(document, f)>> \in CanonicalEntries

\* a document with each kind of empty value, 0 and false was canonicalised
C14_Witness ==
  /\ lastCall.op = "getCanonicalDocument"
  /\ ~lastCall.thrown
  /\ document = sparseDocument
  /\ options = EnactDefaults
  /\ \E f \in Selected : Get(document, f) = Num(0)
  /\ \E f \in Selected : Get(document, f) = EmptyObject
  /\ Len(lastCall.value.object) = 5

(***************************************************************************)
(* C15  The signatures field is never signed                               *)
(***************************************************************************)
\* C15: whatever includeFields, additionalCriticalFields and excludeFields
\* contain, the canonical mapping of a document has no key signatures.
C15_SignaturesNeverSigned ==
  CanonicalReturned => \A entry \in CanonicalEntries : entry[1] # "signatures"

(***************************************************************************)
(* C16  Missing-required error                                             *)
(***************************************************************************)
\* some field that is required in the active default set and selected is
\* absent from the document or has an empty value
MissingRequired ==
  LET defaults == fieldSelector(options)
  IN \E i \in 1..Len(defaults) :
        /\ defaults[i].required
        /\ defaults[i].name \in Selected
        /\ Get(document, defaults[i].name) \in EmptyValues

\* C16: signDocument, createDocumentHash and getCanonicalDocument throw
\* exactly when a required selected field is absent or empty; a required
\* field that is not selected is not validated and an absent selected
\* non-required field raises nothing.
C16_MissingRequired ==
  lastCall.op \in {"signDocument", "createDocumentHash", "getCanonicalDocument"}
    => (lastCall.thrown <=> MissingRequired)

\* a document without description is canonicalised with description
\* excluded and license, also absent, selected
C16_Witness ==
  /\ lastCall.op = "getCanonicalDocument"
  /\ ~lastCall.thrown
  /\ options = EnactTrimmed
  /\ document = commandDocument
  /\ "description" \notin Selected
  /\ "license" \in Selected
  /\ Get(document, "license") = Undefined

(***************************************************************************)
(* C17  Store independence of the pure operations                          *)
(***************************************************************************)
PureOperations ==
  {"signDocument", "createDocumentHash", "getCanonicalDocument",
   "getSignedFields", "verifyDocumentWeb"}

\* the ECDSA check of signature.signature against signature.publicKey over
\* the digest of the document
EcdsaCheck ==
  \E k \in PrivateKeys :
     /\ signature.publicKey = PublicKeyHex[k]
     /\ MadeBy(signature, k, document)

\* C17: a step of signDocument, createDocumentHash, getCanonicalDocument,
\* getSignedFields or the web verifyDocument changes neither the key store
\* nor the config file nor the document and options it is given, and the
\* value the web verifyDocument returns is the ECDSA check of the signature
\* argument against its embedded key, whatever the stores and
\* document.signatures contain.
C17_StoreIndependence ==
  [][lastCall'.op \in PureOperations
       => /\ UNCHANGED << trustedKeysDir, privateKeysDir, metadataFiles,
                          configFile, document, options >>
          /\ (lastCall'.op = "verifyDocumentWeb" /\ ~lastCall'.thrown)
               => (lastCall'.value = Flag(EcdsaCheck))]_vars

\* the web verify accepts a signature of a key that is not trusted, on a
\* document whose own signatures list holds an invalid entry, with no config
\* file written
C17_Witness ==
  /\ lastCall.op = "verifyDocumentWeb"
  /\ ~lastCall.thrown
  /\ lastCall.value = Flag(TRUE)
  /\ document.hasSignatures
  /\ SignatureMade
  /\ Signer \notin TrustedKeys
  /\ configFile = MissingConfig

(***************************************************************************)
(* C18  generateAndStore fails when a file of the keyId exists             *)
(***************************************************************************)
\* C18: a generateAndStoreKey(keyId) step made while a public-key file or a
\* private-key file of keyId exists throws and leaves every stored file
\* unchanged.
C18_GenerateFailsIfExists ==
  [][(/\ lastCall'.op = "generateAndStoreKey"
      /\ \/ trustedKeysDir[lastCall'.keyId] # NoFile
         \/ privateKeysDir[lastCall'.keyId] # NoFile)
       => /\ lastCall'.thrown
          /\ UNCHANGED << trustedKeysDir, privateKeysDir, metadataFiles >>]_vars

(***************************************************************************)
(* C19  Keys are never mutated in place                                    *)
(***************************************************************************)
\* C19: no step replaces the public key stored under a keyId by another one;
\* the public key of a keyId changes only through a removal.
C19_NeverMutatedInPlace ==
  [][\A id \in KeyIds :
       (trustedKeysDir[id] # NoFile /\ trustedKeysDir'[id] # NoFile)
         => trustedKeysDir'[id] = trustedKeysDir[id]]_vars

(***************************************************************************)
(* C20  Key-store writes are all-or-nothing                                *)
(***************************************************************************)
\* C20: when a generateAndStoreKey, importKey or importPublicKey step throws,
\* no file it wrote remains and every key file stored before the call, also
\* under the same keyId, is still stored unchanged.
C20_AllOrNothing ==
  [][(/\ lastCall'.op \in {"generateAndStoreKey", "importKey", "importPublicKey"}
      /\ lastCall'.thrown)
       => /\ UNCHANGED << trustedKeysDir, privateKeysDir >>
          /\ \A id \in KeyIds : metadataFiles'[id] => metadataFiles[id]]_vars

(***************************************************************************)
(* C21  remove deletes what exists and tells whether it deleted            *)
(***************************************************************************)
\* the files of keyId that exist in the given directories
FilesOf(trusted, private, meta, keyId) ==
  {f \in {"public", "private", "metadata"} :
     \/ f = "public" /\ trusted[keyId] # NoFile
     \/ f = "private" /\ private[keyId] # NoFile
     \/ f = "metadata" /\ meta[keyId]}

\* C21: after a removeKey(keyId) step no public-key, private-key or metadata
\* file of keyId exists, the files of every other keyId are as before, and
\* the call returned true exactly when it deleted at least one file, also
\* when one of its deletions failed.
C21_RemoveDeletesAndTells ==
  [][lastCall'.op = "removeKey" =>
       LET keyId == lastCall'.keyId
           before == FilesOf(trustedKeysDir, privateKeysDir, metadataFiles, keyId)
           after == FilesOf(trustedKeysDir', privateKeysDir', metadataFiles', keyId)
       IN /\ after = {}
          /\ \A id \in KeyIds \ {keyId} :
                /\ trustedKeysDir'[id] = trustedKeysDir[id]
                /\ privateKeysDir'[id] = privateKeysDir[id]
                /\ metadataFiles'[id] = metadataFiles[id]
          /\ lastCall'.value = Flag(before \ after # {})]_vars

(***************************************************************************)
(* Specification of the config store: the config file is loaded, saved,    *)
(* updated, reset and imported, starting from every content                *)
(***************************************************************************)
\* configs with an out-of-range field
InvalidConfigs ==
  {NegativeMinimum, [allowLocalUnsigned |-> FALSE, minimumSignatures |-> -1]}

\* the contents of the config file: missing, not parsable, parsable
ConfigFiles ==
  {MissingConfig, CorruptConfig}
    \cup {JsonConfig(c) : c \in PartialConfigs \cup InvalidConfigs}

\* SecurityConfigManager.loadConfig(); a missing file is initialized
LoadConfig(initWritten) ==
  LET r == loadConfig(configFile)
  IN ConfigStoreCall(configFileAfterLoad(configFile, initWritten),
                     Call("loadConfig", 0, FALSE, r))

InitStore ==
  /\ trustedKeysDir = [id \in KeyIds |-> NoFile]
  /\ policy = NotGiven
  /\ configFile \in ConfigFiles
  /\ options = CommandOnly
  /\ document = commandDocument
  /\ signature = dummySignature
  /\ signedDocument = document
  /\ result = "none"
  /\ edits = 0
  /\ ImportedOnly

NextStore ==
  \/ \E initWritten \in BOOLEAN : LoadConfig(initWritten)
  \/ \E c \in PartialConfigs \cup InvalidConfigs, written \in BOOLEAN :
        SaveConfig(c, written)
  \/ \E u \in PartialConfigs, initWritten \in BOOLEAN, written \in BOOLEAN :
        UpdateConfig(u, initWritten, written)
  \/ \E written \in BOOLEAN, initWritten \in BOOLEAN :
        ResetToDefaults(written, initWritten)
  \/ \E source \in ConfigFiles, written \in BOOLEAN :
        ImportConfig(source, written)

SpecStore == InitStore /\ [][NextStore]_vars

(***************************************************************************)
(* C22  Config load always returns a valid config                          *)
(***************************************************************************)
\* C22: whatever the config file holds (missing, not parsable, parsable with
\* an out-of-range field, or valid), the config a loadConfig() step returns
\* passes validateConfig, and it is the defaults when the file is missing or
\* not parsable.
C22_LoadReturnsValid ==
  [][lastCall'.op = "loadConfig" =>
       /\ validateConfig(lastCall'.value)
       /\ configFile.kind # "json" => lastCall'.value = DEFAULT_SECURITY_CONFIG]_vars

(***************************************************************************)
(* C23  Config import                                                      *)
(***************************************************************************)
\* an importConfig step that returned a config
ImportReturned == lastCall'.op = "importConfig" /\ lastCall'.value # Null

\* what the next loadConfig() returns after the step
NextLoad == loadConfig(configFile')

\* C23 as stated: the next loadConfig() returns exactly the value importConfig
\* returned.
C23_Original ==
  [][ImportReturned => NextLoad = lastCall'.value]_vars

\* C23: when an importConfig step returns a config, the next loadConfig()
\* returns that config with each field it lacks at its default (exactly the
\* returned value when it names both fields) and the returned config passes
\* validateConfig; when importConfig returns nothing, the config file is as
\* before.
C23_ImportPersists ==
  [][lastCall'.op = "importConfig" =>
       IF lastCall'.value # Null
         THEN /\ validateConfig(lastCall'.value)
              /\ DOMAIN NextLoad = DOMAIN DEFAULT_SECURITY_CONFIG
              /\ \A f \in DOMAIN NextLoad :
                    NextLoad[f] = IF f \in DOMAIN lastCall'.value
                                    THEN lastCall'.value[f]
                                  ELSE DEFAULT_SECURITY_CONFIG[f]
       ELSE configFile' = configFile]_vars

\* an import of a file naming only minimumSignatures returned its config over
\* a config file holding something else
C23_Witness ==
  /\ lastCall.op = "importConfig"
  /\ lastCall.value = [minimumSignatures |-> 2]
  /\ configFile = JsonConfig([allowLocalUnsigned |-> TRUE, minimumSignatures |-> 2])

(***************************************************************************)
(* The PEM codec of CryptoUtils, digit by digit: a hex string is the       *)
(* sequence of its digits 0..15, a byte string the sequence of its bytes,  *)
(* a base64 string the sequence of its characters' values (64 is '=')      *)
(***************************************************************************)
\* derPrefix of hexToPem 'PUBLIC': 3056301006072a8648ce3d020106052b8104000a034200
PublicDerPrefix ==
  << 3, 0, 5, 6, 3, 0, 1, 0, 0, 6, 0, 7, 2, 10, 8, 6, 4, 8, 12, 14, 3,
     13, 0, 2, 0, 1, 0, 6, 0, 5, 2, 11, 8, 1, 0, 4, 0, 0, 0, 10, 0, 3,
     4, 2, 0, 0 >>

\* derPrefix of hexToPem 'PRIVATE': 308184020100301006072a8648ce3d020106052b8104000a046d306b0201010420
PrivateDerPrefix ==
  << 3, 0, 8, 1, 8, 4, 0, 2, 0, 1, 0, 0, 3, 0, 1, 0, 0, 6, 0, 7, 2, 10,
     8, 6, 4, 8, 12, 14, 3, 13, 0, 2, 0, 1, 0, 6, 0, 5, 2, 11, 8, 1, 0,
     4, 0, 0, 0, 10, 0, 4, 6, 13, 3, 0, 6, 11, 0, 2, 0, 1, 0, 1, 0, 4,
     2, 0 >>

\* derPrefix of the web hexToPem 'PRIVATE': 308184020100301306072a8648ce3d020106082a8648ce3d030107046d306b0201010420
PrivateDerPrefixWeb ==
  << 3, 0, 8, 1, 8, 4, 0, 2, 0, 1, 0, 0, 3, 0, 1, 3, 0, 6, 0, 7, 2, 10,
     8, 6, 4, 8, 12, 14, 3, 13, 0, 2, 0, 1, 0, 6, 0, 8, 2, 10, 8, 6, 4,
     8, 12, 14, 3, 13, 0, 3, 0, 1, 0, 7, 0, 4, 6, 13, 3, 0, 6, 11, 0, 2,
     0, 1, 0, 1, 0, 4, 2, 0 >>

\* derSuffix before the public key: a144034200
PrivateDerSuffix ==
  << 10, 1, 4, 4, 0, 3, 4, 2, 0, 0 >>

\* '034200', the bit string indicator pemToHex looks for
BitStringTag ==
  << 0, 3, 4, 2, 0, 0 >>

\* '0420', the octet string indicator pemToHex looks for
OctetStringTag ==
  << 0, 4, 2, 0 >>

\* @noble/hashes hexToBytes: two digits a byte
hexToBytes(hex) ==
  [i \in 1..(Len(hex) \div 2) |-> 16 * hex[2 * i - 1] + hex[2 * i]]

\* @noble/hashes bytesToHex
bytesToHex(bytes) ==
  [i \in 1..(2 * Len(bytes)) |->
     IF i % 2 = 1 THEN bytes[(i + 1) \div 2] \div 16 ELSE bytes[i \div 2] % 16]

\* 64 to the power k, k in 0..3
Pow64(k) == IF k = 0 THEN 1 ELSE IF k = 1 THEN 64 ELSE IF k = 2 THEN 4096 ELSE 262144

\* 256 to the power k, k in 0..2
Pow256(k) == IF k = 0 THEN 1 ELSE IF k = 1 THEN 256 ELSE 65536

\* Buffer.from(bytes).toString('base64') / btoa: three bytes make four
\* characters, the last group is filled up with '='
toBase64(bytes) ==
  LET n == Len(bytes)
      byteAt(i) == IF i <= n THEN bytes[i] ELSE 0
      group(g) == 65536 * byteAt(3 * g - 2) + 256 * byteAt(3 * g - 1) + byteAt(3 * g)
      filled == (8 * n + 5) \div 6
  IN [j \in 1..(4 * ((n + 2) \div 3)) |->
        IF j > filled THEN 64
        ELSE (group((j - 1) \div 4 + 1) \div Pow64(3 - ((j - 1) % 4))) % 64]

\* Buffer.from(base64Content, 'base64') / atob: four characters make three
\* bytes, '=' ends the data
fromBase64(chars) ==
  LET data == SelectSeq(chars, LAMBDA c : c # 64)
      m == Len(data)
      charAt(j) == IF j <= m THEN data[j] ELSE 0
      group(g) == 262144 * charAt(4 * g - 3) + 4096 * charAt(4 * g - 2)
                    + 64 * charAt(4 * g - 1) + charAt(4 * g)
  IN [i \in 1..((6 * m) \div 8) |->
        (group((i - 1) \div 3 + 1) \div Pow256(2 - ((i - 1) % 3))) % 256]

\* the number of base64 characters of a PEM line: base64Key.match(/.{1,64}/g)
PemLineLength == 64

\* the PEM text: the key type of the BEGIN and END markers and the lines of
\* base64 between them
pemText(keyType, base64Key) ==
  [label |-> keyType,
   lines |-> [l \in 1..((Len(base64Key) + PemLineLength - 1) \div PemLineLength) |->
                SubSeq(base64Key, PemLineLength * (l - 1) + 1,
                       IF PemLineLength * l < Len(base64Key)
                         THEN PemLineLength * l ELSE Len(base64Key))]]

\* the markers replaced by '' and all white space removed
RECURSIVE joinLines(_)
joinLines(lines) ==
  IF lines = <<>> THEN <<>> ELSE Head(lines) \o joinLines(Tail(lines))

base64Content(pemKey) == joinLines(pemKey.lines)

\* String.prototype.indexOf, counted from 0; -1 when absent
indexOf(text, pattern) ==
  LET found == {i \in 0..(Len(text) - Len(pattern)) :
                  SubSeq(text, i + 1, i + Len(pattern)) = pattern}
  IN IF found = {} THEN -1 ELSE CHOOSE i \in found : \A j \in found : i <= j

\* String.prototype.substring(start, end) for 0 <= start <= end
substring(text, start, end) ==
  SubSeq(text, start + 1, IF end < Len(text) THEN end ELSE Len(text))

\* the key type of the markers
keyTypeOf(type) == IF type = "PUBLIC" THEN "PUBLIC KEY" ELSE "PRIVATE KEY"

\* hex digits of a compressed public key, of a private scalar, of an
\* uncompressed public key
PublicKeyHexLength == 66
PrivateKeyHexLength == 64
CompressedKeyBytes == 33
RawKeyBytes == 32
UncompressedKeyBytes == 65

\* secp256k1.getPublicKey on the digits of a scalar: the point stands after
\* the scalar in the DER structure; its digits are a tag and 32 bytes fixed
\* by the scalar. The zero scalar is no private key: it throws.
getPublicKeyFromPrivateHex(privateKeyHex) ==
  IF \A i \in 1..Len(privateKeyHex) : privateKeyHex[i] = 0 THEN Thrown
  ELSE Returned(<< 0, 2 + (privateKeyHex[Len(privateKeyHex)] % 2) >>
                  \o [i \in 1..Len(privateKeyHex) |->
                        privateKeyHex[Len(privateKeyHex) + 1 - i]])

\* CryptoUtils.hexToPem of crypto.ts
hexToPemText(hexKey, type) ==
  LET publicKey == getPublicKeyFromPrivateHex(hexKey)
      derKey == IF type = "PUBLIC" THEN PublicDerPrefix \o hexKey
                ELSE PrivateDerPrefix \o hexKey \o PrivateDerSuffix
                       \o publicKey.value
  IN IF Len(hexKey) % 2 = 1 THEN Thrown
     ELSE IF type = "PRIVATE" /\ publicKey.thrown THEN Thrown
     ELSE Returned(pemText(keyTypeOf(type), toBase64(hexToBytes(derKey))))

\* pemToHex that takes the last indicator of the DER structure for the one
\* before the key
pemToHexTextLast(pemKey, type) ==
  LET derHex == bytesToHex(fromBase64(base64Content(pemKey)))
      tag == IF type = "PUBLIC" THEN BitStringTag ELSE OctetStringTag
      size == IF type = "PUBLIC" THEN PublicKeyHexLength ELSE PrivateKeyHexLength
      found == {i \in 0..(Len(derHex) - Len(tag)) :
                  SubSeq(derHex, i + 1, i + Len(tag)) = tag}
      keyStart == Len(tag) + IF found = {} THEN -1
                             ELSE CHOOSE i \in found : \A j \in found : i >= j
  IN Returned(substring(derHex, keyStart, keyStart + size))

\* CryptoUtils.pemToHex of crypto.ts; pemKey carries the markers of type
pemToHexText(pemKey, type) ==
  LET derBytes == fromBase64(base64Content(pemKey))
      derHex == bytesToHex(derBytes)
      publicKeyStart == indexOf(derHex, BitStringTag) + 6
      privateKeyStart == indexOf(derHex, OctetStringTag) + 4
  IN IF type = "PUBLIC"
       THEN Returned(substring(derHex, publicKeyStart,
                               publicKeyStart + PublicKeyHexLength))
     ELSE Returned(substring(derHex, privateKeyStart,
                             privateKeyStart + PrivateKeyHexLength))

\* CryptoUtils.hexToPem of the web package
hexToPemWeb(hexKey, type) ==
  LET publicKey == getPublicKeyFromPrivateHex(hexKey)
      derKey == IF type = "PUBLIC" THEN PublicDerPrefix \o hexKey
                ELSE PrivateDerPrefixWeb \o hexKey \o PrivateDerSuffix
                       \o publicKey.value
  IN IF Len(hexKey) % 2 = 1 THEN Thrown
     ELSE IF type = "PRIVATE" /\ publicKey.thrown THEN Thrown
     ELSE Returned(pemText(keyTypeOf(type), toBase64(hexToBytes(derKey))))

\* CryptoUtils.pemToHex of the web package, 'PUBLIC'
pemToHexWebPublic(derBytes, derHex) ==
  LET standardPrefixIndex == indexOf(derHex, BitStringTag)
      publicKeyStart == standardPrefixIndex + 6
      x == substring(derHex, 2, 66)
      y == substring(derHex, 66, 130)
      prefix == IF y[Len(y)] % 2 = 0 THEN << 0, 2 >> ELSE << 0, 3 >>
  IN IF standardPrefixIndex # -1
       THEN Returned(substring(derHex, publicKeyStart,
                               publicKeyStart + PublicKeyHexLength))
     ELSE IF Len(derBytes) = CompressedKeyBytes /\ derBytes[1] \in {2, 3}
       THEN Returned(derHex)
     ELSE IF Len(derBytes) = RawKeyBytes THEN Returned(<< 0, 2 >> \o derHex)
     ELSE IF Len(derBytes) = UncompressedKeyBytes /\ derBytes[1] = 4
       THEN Returned(prefix \o x)
     ELSE IF Len(derBytes) >= RawKeyBytes /\ Len(derBytes) <= UncompressedKeyBytes
       THEN Returned(derHex)
     ELSE Thrown

\* CryptoUtils.pemToHex of the web package, 'PRIVATE'
pemToHexWebPrivate(derBytes, derHex) ==
  LET privateKeyStart == indexOf(derHex, OctetStringTag) + 4
      extractedKey == substring(derHex, privateKeyStart,
                                privateKeyStart + PrivateKeyHexLength)
  IN IF privateKeyStart = 3
       THEN IF Len(derBytes) = RawKeyBytes THEN Returned(derHex) ELSE Thrown
     ELSE IF Len(extractedKey) # PrivateKeyHexLength THEN Thrown
     ELSE Returned(extractedKey)

\* CryptoUtils.pemToHex of the web package; pemKey carries the markers of type
pemToHexWeb(pemKey, type) ==
  LET derBytes == fromBase64(base64Content(pemKey))
      derHex == bytesToHex(derBytes)
  IN IF type = "PUBLIC" THEN pemToHexWebPublic(derBytes, derHex)
     ELSE pemToHexWebPrivate(derBytes, derHex)

(***************************************************************************)
(* Specification of the PEM codec: keys are encoded, PEM texts are decoded *)
(***************************************************************************)
\* the largest digit offset at which a key holds a chosen digit pattern
MaxOffset == 3

Offsets == 0..MaxOffset

\* digit patterns placed inside keys: the two indicators and parts of them
KeyFragments ==
  { BitStringTag, OctetStringTag, << 4, 2, 0, 0 >>, << 2, 0 >>, << 15, 15 >> }

\* the digit the rest of a key is filled with
Fills == {0, 7}

\* len digits: fragment after the first at digits, fill elsewhere
Digits(len, fill, fragment, at) ==
  [i \in 1..len |->
     IF i > at /\ i <= at + Len(fragment) THEN fragment[i - at] ELSE fill]

\* the x coordinates and scalars: 32 bytes
Scalars ==
  {Digits(PrivateKeyHexLength, fill, fragment, at) :
     fill \in Fills, fragment \in KeyFragments, at \in Offsets}

\* compressed public keys: 02 or 03, then x
PublicKeyInputs == {<< 0, t >> \o x : t \in {2, 3}, x \in Scalars}

\* private scalars
PrivateKeyInputs == Scalars

\* the bytes between the markers of a PEM text handed to pemToHex 'PUBLIC':
\* the DER structure hexToPem builds, the SubjectPublicKeyInfo of an
\* uncompressed key, raw keys of 33, 32 and 65 bytes with each leading byte,
\* and other lengths
RawPublicKeys ==
  LET x == Digits(PrivateKeyHexLength, 7, << 15, 15 >>, 0)
      y == Digits(PrivateKeyHexLength, 7, << 15, 15 >>, 1)
      odd == Digits(PrivateKeyHexLength, 1, << 15, 15 >>, 0)
  IN {PublicDerPrefix \o << 0, t >> \o x : t \in {2, 3}}
       \cup {PublicDerPrefix \o << 0, 4 >> \o x \o yy : yy \in {y, odd}}
       \cup {<< 0, t >> \o s : t \in {2, 3, 4, 5}, s \in Scalars}
       \cup Scalars
       \cup {<< 0, t >> \o x \o yy : t \in {4, 5}, yy \in {y, odd}}
       \cup {Digits(2 * n, 7, << 15, 15 >>, 0) : n \in {31, 40, 66}}

PublicPemInputs ==
  {pemText("PUBLIC KEY", toBase64(hexToBytes(raw))) : raw \in RawPublicKeys}

\* what the caller may hold: a key in hex with its type, or a PEM text
HexInput(hexKey, type) == [kind |-> "hex", hexKey |-> hexKey, type |-> type]
PemInput(pemKey, type) == [kind |-> "pem", pemKey |-> pemKey, type |-> type]

KeyInputs ==
  {HexInput(hexKey, "PUBLIC") : hexKey \in PublicKeyInputs}
    \cup {HexInput(hexKey, "PRIVATE") : hexKey \in PrivateKeyInputs}
    \cup {PemInput(pemKey, "PUBLIC") : pemKey \in PublicPemInputs}

\* a call of the codec: its arguments and what it returned
CodecCall(op, argument, type, r) ==
  Call(op, 0, r.thrown, [argument |-> argument, returned |-> r.value, type |-> type])

\* a call of the codec changes nothing
CodecStep(call) ==
  /\ lastCall' = call
  /\ UNCHANGED << trustedKeysDir, configFile, document, options, policy,
                  signature, signedDocument, result, edits >>
  /\ UNCHANGED keyFiles

\* CryptoUtils.hexToPem(hexKey, type) of crypto.ts on the key at hand
HexToPem ==
  LET r == hexToPemText(keyInput.hexKey, keyInput.type)
  IN /\ keyInput.kind = "hex"
     /\ CodecStep(CodecCall("hexToPem", keyInput.hexKey, keyInput.type, r))

\* CryptoUtils.hexToPem(hexKey, type) of the web package on the key at hand
HexToPemWeb ==
  LET r == hexToPemWeb(keyInput.hexKey, keyInput.type)
  IN /\ keyInput.kind = "hex"
     /\ CodecStep(CodecCall("hexToPemWeb", keyInput.hexKey, keyInput.type, r))

\* the PEM text at hand: the one the last call returned, or the caller's
PemAtHand ==
  IF lastCall.op \in {"hexToPem", "hexToPemWeb"} /\ ~lastCall.thrown
    THEN PemInput(lastCall.value.returned, lastCall.value.type)
  ELSE keyInput

\* CryptoUtils.pemToHex(pemKey, type) of crypto.ts; the markers of pemKey are
\* those of type
PemToHex ==
  LET r == pemToHexText(PemAtHand.pemKey, PemAtHand.type)
  IN /\ PemAtHand.kind = "pem"
     /\ CodecStep(CodecCall("pemToHex", PemAtHand.pemKey, PemAtHand.type, r))

\* CryptoUtils.pemToHex(pemKey, type) of the web package
PemToHexWeb ==
  LET r == pemToHexWeb(PemAtHand.pemKey, PemAtHand.type)
  IN /\ PemAtHand.kind = "pem"
     /\ CodecStep(CodecCall("pemToHexWeb", PemAtHand.pemKey, PemAtHand.type, r))

InitPem ==
  /\ trustedKeysDir = [id \in KeyIds |-> NoFile]
  /\ privateKeysDir = [id \in KeyIds |-> NoFile]
  /\ metadataFiles = [id \in KeyIds |-> FALSE]
  /\ policy = NotGiven
  /\ configFile = MissingConfig
  /\ options = CommandOnly
  /\ document = commandDocument
  /\ signature = dummySignature
  /\ signedDocument = document
  /\ result = "none"
  /\ edits = 0
  /\ lastCall = NoCall
  /\ revoked = {}
  /\ keyInput \in KeyInputs
  /\ verifyRun = NotVerifying
  /\ pathFiles = NoPaths

NextPem ==
  \/ HexToPem
  \/ HexToPemWeb
  \/ PemToHex
  \/ PemToHexWeb

SpecPem == InitPem /\ [][NextPem]_vars

(***************************************************************************)
(* C24  PEM round trip                                                     *)
(***************************************************************************)
\* a step that decodes, with the decoder of the same package and the same
\* type, the PEM text the step before encoded
RoundTrip ==
  /\ ~lastCall.thrown
  /\ \/ lastCall.op = "hexToPem" /\ lastCall'.op = "pemToHex"
     \/ lastCall.op = "hexToPemWeb" /\ lastCall'.op = "pemToHexWeb"
  /\ lastCall'.value.argument = lastCall.value.returned
  /\ lastCall'.value.type = lastCall.value.type

\* C24: decoding the PEM text of a 33-byte compressed public key as PUBLIC,
\* or of a 32-byte private scalar as PRIVATE, returns the key that was
\* encoded, whatever bytes the key holds.
C24_PemRoundTrip ==
  [][RoundTrip =>
       /\ ~lastCall'.thrown
       /\ lastCall'.value.returned = lastCall.value.argument]_vars

\* a PEM text was decoded to a key that holds an indicator of its own: a
\* private scalar with 0420, a public key with 034200
C24_Witness ==
  /\ lastCall.op \in {"pemToHex", "pemToHexWeb"}
  /\ ~lastCall.thrown
  /\ Len(lastCall.value.argument.lines) > 1
  /\ \/ /\ lastCall.value.type = "PRIVATE"
        /\ lastCall.value.returned = Digits(PrivateKeyHexLength, 7, OctetStringTag, 1)
     \/ /\ lastCall.value.type = "PUBLIC"
        /\ lastCall.value.returned
             = << 0, 3 >> \o Digits(PrivateKeyHexLength, 0, BitStringTag, 2)

(***************************************************************************)
(* C25  Canonical public-key output                                        *)
(***************************************************************************)
\* C25: whenever pemToHex of a public key returns, for a PEM text holding
\* the DER structure, a raw key of 33, 32 or 65 bytes or bytes of another
\* length, the result is the compressed form: 66 hex digits that begin with
\* 02 or 03; every other input throws.
C25_CanonicalPublicKey ==
  (/\ lastCall.op \in {"pemToHex", "pemToHexWeb"}
   /\ lastCall.value.type = "PUBLIC"
   /\ ~lastCall.thrown)
    => /\ Len(lastCall.value.returned) = PublicKeyHexLength
       /\ SubSeq(lastCall.value.returned, 1, 2) \in {<< 0, 2 >>, << 0, 3 >>}

(***************************************************************************)
(* C26  The signature argument is ignored when the document carries a      *)
(*      signatures list                                                    *)
(***************************************************************************)
\* the signature arguments a caller may pass: the one passed, one that is no
\* signature, and the signature of the document by each key
SignatureArguments ==
  {signature, dummySignature}
    \cup {signDocument(document, k, options, 1).value :
            k \in {j \in PrivateKeys :
                     ~signDocument(document, j, options, 1).thrown}}

\* a verifyDocument step
VerifyStep == result' \in {"true", "false", "throws"}

\* C26: a verifyDocument call on a document that has a signatures field
\* returns what the call with the same document, options, policy, config
\* file and trusted keys returns for every other signature argument.
C26_SignatureArgumentIgnored ==
  [][(VerifyStep /\ document.hasSignatures) =>
       \A other \in SignatureArguments :
          result' = verifyDocument(document, other, options, policy,
                                   configFile, trustedKeysDir)]_vars

\* the document without its signatures field
WithoutSignatures ==
  [document EXCEPT !.hasSignatures = FALSE, !.signatures = << >>]

\* verifyDocument returned true for a document with a signatures list while
\* the signature argument, checked on its own, is rejected
C26_Witness ==
  /\ result = "true"
  /\ document.hasSignatures
  /\ Len(document.signatures) > 0
  /\ verifyDocument(WithoutSignatures, signature, options, policy,
                    configFile, trustedKeysDir) = "false"

(***************************************************************************)
(* verifyDocument step by step: the reads of the trusted-keys directory    *)
(* and the judgement of each signature are steps of their own, so that     *)
(* another process can change the key store in between                     *)
(***************************************************************************)
\* the callback that re-reads the trusted-keys directory for each signature
trustedKeysOfCallbackReread(trustedPublicKeys, dir) ==
  getAllTrustedPublicKeys(dir)

\* the trusted keys the callback of signatures.every judges against: the
\* array trustedPublicKeys of the enclosing call, whatever dir holds by now
trustedKeysOfCallback(trustedPublicKeys, dir) == trustedPublicKeys

\* no verifyDocument call is between its first and its last step
NotInVerify == verifyRun.phase \in {"idle", "done"}

\* a step of the verifyDocument call in progress
VerifyRunStep(run, outcome) ==
  /\ verifyRun' = run
  /\ result' = outcome
  /\ lastCall' = NoCall
  /\ UNCHANGED << trustedKeysDir, document, options, policy, signature,
                  signedDocument, edits, privateKeysDir, metadataFiles,
                  revoked, keyInput, pathFiles >>

\* verifyDocument up to fs.readdirSync(TRUSTED_KEYS_DIR): the config, the
\* signatures, the threshold, the hash and the names of the .pem files
BeginVerify ==
  LET config == effectiveConfig(policy, configFile)
      signatures == signaturesToCheck(document, signature)
      messageHash == createDocumentHash(document, options)
      files == {keyId \in KeyIds : trustedKeysDir[keyId] # NoFile}
      outcome == IF belowMinimum(signatures, config)
                   THEN (IF config.allowLocalUnsigned /\ Len(signatures) = 0
                           THEN "true" ELSE "false")
                 ELSE IF messageHash.thrown THEN "throws"
                 ELSE "none"
  IN /\ NotInVerify
     /\ VerifyRunStep(IF outcome # "none" THEN NotVerifying
                      ELSE [phase |-> IF files = {} THEN "checking" ELSE "reading",
                            signatures |-> signatures,
                            messageHash |-> messageHash.value,
                            files |-> files,
                            trustedPublicKeys |-> {},
                            judged |-> << >>,
                            outcome |-> "none"],
                      outcome)
     /\ \E written \in BOOLEAN :
          configFile' = IF policy.given THEN configFile
                        ELSE configFileAfterLoad(configFile, written)

\* getAllTrustedPublicKeys: fs.readFileSync of one listed file; a file that
\* is gone by now throws and is left out
ReadTrustedKey(keyId) ==
  /\ verifyRun.phase = "reading"
  /\ keyId \in verifyRun.files
  /\ VerifyRunStep([verifyRun EXCEPT
                      !.files = @ \ {keyId},
                      !.trustedPublicKeys =
                         IF trustedKeysDir[keyId] # NoFile
                           THEN @ \cup {pemToHex(trustedKeysDir[keyId])} ELSE @,
                      !.phase = IF verifyRun.files = {keyId}
                                  THEN "checking" ELSE "reading"],
                   "none")
  /\ UNCHANGED configFile

\* one call of the callback of signatures.every; every stops at the first
\* signature that does not pass
CheckSignature ==
  LET i == Len(verifyRun.judged) + 1
      against == trustedKeysOfCallback(verifyRun.trustedPublicKeys, trustedKeysDir)
      passes == signaturePasses(verifyRun.signatures[i], verifyRun.messageHash,
                                against)
      outcome == IF i > Len(verifyRun.signatures) THEN "true"
                 ELSE IF ~passes THEN "false"
                 ELSE IF i = Len(verifyRun.signatures) THEN "true"
                 ELSE "none"
  IN /\ verifyRun.phase = "checking"
     /\ VerifyRunStep([verifyRun EXCEPT
                         !.judged =
                            IF i > Len(verifyRun.signatures) THEN @
                            ELSE Append(@, [against |-> against,
                                            passes |-> passes,
                                            store |-> getAllTrustedPublicKeys(trustedKeysDir)]),
                         !.phase = IF outcome = "none" THEN "checking" ELSE "done",
                         !.outcome = outcome],
                      outcome)
     /\ UNCHANGED configFile

(***************************************************************************)
(* Specification of verification next to another process: the key store    *)
(* changes between the steps of a verifyDocument call (every store a call  *)
(* can start from is an initial one)                                       *)
(***************************************************************************)
InitSnapshot ==
  /\ trustedKeysDir \in StoreStates
  /\ policy = Given(DEFAULT_SECURITY_CONFIG)
  /\ configFile = MissingConfig
  /\ options = EnactDefaults
  /\ document = testDocument
  /\ signature = dummySignature
  /\ signedDocument = document
  /\ result = "none"
  /\ edits = 0
  /\ ImportedOnly

NextSnapshot ==
  \/ verifyRun = NotVerifying /\ \E k \in PrivateKeys : SignDocument(k, 1)
  \/ verifyRun = NotVerifying /\ AppendSignature
  \/ BeginVerify
  \/ \E keyId \in KeyIds : ReadTrustedKey(keyId)
  \/ CheckSignature
  \/ ~NotInVerify /\ \E keyId \in KeyIds, k \in PrivateKeys :
        ImportPublicKey(keyId, PublicKeyHex[k], NoFailure)
  \/ ~NotInVerify /\ \E keyId \in KeyIds : RemoveKey(keyId, NoFailure)

SpecSnapshot == InitSnapshot /\ [][NextSnapshot]_vars

(***************************************************************************)
(* C27  Trust snapshot                                                     *)
(***************************************************************************)
\* every signature judged so far was judged against the set read before the
\* first one was judged, and the outcome is the one that set gives
SnapshotJudged ==
  verifyRun.phase \in {"checking", "done"} =>
    /\ \A i \in 1..Len(verifyRun.judged) :
          /\ verifyRun.judged[i].against = verifyRun.trustedPublicKeys
          /\ verifyRun.judged[i].passes
               = signaturePasses(verifyRun.signatures[i], verifyRun.messageHash,
                                 verifyRun.trustedPublicKeys)
    /\ verifyRun.phase = "done" =>
         verifyRun.outcome
           = IF allSignaturesPass(verifyRun.signatures, verifyRun.messageHash,
                                  verifyRun.trustedPublicKeys)
               THEN "true" ELSE "false"

\* once signatures are being judged, no step of the call or of another
\* process changes the set they are judged against
SnapshotKept ==
  (verifyRun.phase = "checking" /\ verifyRun'.phase \in {"checking", "done"})
    => verifyRun'.trustedPublicKeys = verifyRun.trustedPublicKeys

\* C27: within one verifyDocument call the trusted-key set is read once,
\* before any signature is judged, and every signature is judged against
\* that set, whatever another process does to the key store meanwhile.
C27_TrustSnapshot == []SnapshotJudged /\ [][SnapshotKept]_vars

\* a call judged two signatures and the trusted-keys directory held
\* different keys when the first and when the second was judged
C27_Witness ==
  /\ verifyRun.phase = "done"
  /\ Len(verifyRun.judged) = 2
  /\ verifyRun.judged[1].store # verifyRun.judged[2].store
  /\ verifyRun.judged[1].store = verifyRun.trustedPublicKeys
  /\ verifyRun.outcome = "true"

(***************************************************************************)
(* C28  Multi-party threshold                                              *)
(***************************************************************************)
\* the trusted keys that have signed the document: those whose signature
\* over the document is in the checked list
TrustedSigners ==
  {k \in TrustedKeys :
     \E i \in 1..Len(CheckedList) : MadeBy(CheckedList[i], k, document)}

\* C28: under a policy with minimumSignatures = m >= 2, verifyDocument
\* returns true for a document that carries signatures only if at least m
\* distinct trusted keys have signed the document; a signature listed
\* several times counts once.
C28_DistinctSigners ==
  (/\ Verified
   /\ result = "true"
   /\ Len(CheckedList) > 0
   /\ PolicyInForce.minimumSignatures >= 2)
    => Cardinality(TrustedSigners) >= PolicyInForce.minimumSignatures

(***************************************************************************)
(* C29  Stored pairs                                                       *)
(***************************************************************************)
\* CryptoUtils.pemToHex(pemKey, 'PRIVATE'): what follows the first 0420. The
\* DER is kept field by field as hexToPemPrivate writes it: the prefix, the
\* 0420 tag, the scalar, the suffix, the public key; the prefix holds no 0420
\* (pemToHexText does the search digit by digit).
pemToHexPrivate(pemKey) ==
  LET der == pemKey.der
      privateKeyStart == IF Len(der) >= 2 /\ der[2] = "0420" THEN 3 ELSE 1
  IN IF privateKeyStart <= Len(der) THEN der[privateKeyStart] ELSE ""

\* KeyManager.getKey: undefined unless both files exist, else the two files
\* decoded
getKey(store, keyId) ==
  IF store.trusted[keyId] = NoFile \/ store.private[keyId] = NoFile
    THEN Undefined
    ELSE [type |-> "pair",
          privateKey |-> pemToHexPrivate(store.private[keyId]),
          publicKey |-> pemToHex(store.trusted[keyId])]

\* KeyManager.listKeys: the <keyId>-public.pem files whose key exists
listKeys(store) ==
  {keyId \in {id \in DOMAIN store.trusted : store.trusted[id] # NoFile} :
     keyExists(store, keyId)}

\* C29: after any sequence of generateAndStoreKey, importKey, importPublicKey
\* and removeKey calls, successful or failing, every keyId for which getKey
\* returns a pair has pair.publicKey = getPublicKeyFromPrivate(pair.privateKey),
\* and keyExists(keyId), getKey(keyId) being a pair and keyId being in
\* listKeys() are equivalent.
C29_StoredPairs ==
  \A keyId \in KeyIds :
     LET pair == getKey(KeyStoreNow, keyId)
     IN /\ pair # Undefined
             => pair.publicKey = getPublicKeyFromPrivate(pair.privateKey)
        /\ keyExists(KeyStoreNow, keyId) <=> pair # Undefined
        /\ keyExists(KeyStoreNow, keyId) <=> keyId \in listKeys(KeyStoreNow)

(***************************************************************************)
(* KeyManager file by file: keyId is a string that path.join puts after    *)
(* the directory, so the keyId ../trusted-keys/<name> names files of the    *)
(* trusted-keys directory                                                  *)
(***************************************************************************)
TRUSTED_KEYS_DIR == "trusted-keys"
PRIVATE_KEYS_DIR == "private-keys"

KeyDirectories == {TRUSTED_KEYS_DIR, PRIVATE_KEYS_DIR}

\* the keyId strings: <name> (up is "") and ../trusted-keys/<name>
PlainKeyId(name) == [up |-> "", name |-> name]
KeyIdStrings == [up : {"", TRUSTED_KEYS_DIR}, name : KeyIds]

\* the file name <name><suffix>
FileName(name, suffix) == [name |-> name, suffix |-> suffix]

\* the suffixes in the order readdirSync lists the files of one name
FileSuffixes == << "-private.pem", "-public.pem", ".meta" >>

FilePaths ==
  [dir : KeyDirectories, file : [name : KeyIds, suffix : Range(FileSuffixes)]]

\* path.join(dir, `${keyId}${suffix}`): a leading ../<up>/ replaces the last
\* segment of dir
pathJoin(dir, keyId, suffix) ==
  [dir |-> IF keyId.up = "" THEN dir ELSE keyId.up,
   file |-> FileName(keyId.name, suffix)]

\* KeyManager.getPublicKeyPath
getPublicKeyPath(keyId) == pathJoin(TRUSTED_KEYS_DIR, keyId, "-public.pem")

\* KeyManager.getPrivateKeyPath
getPrivateKeyPath(keyId) == pathJoin(PRIVATE_KEYS_DIR, keyId, "-private.pem")

\* KeyManager.getMetadataPath
getMetadataPath(keyId) == pathJoin(TRUSTED_KEYS_DIR, keyId, ".meta")

\* JSON.stringify(metadata, null, 2): the content of a metadata file
MetadataFile == [label |-> "json", der |-> <<>>]

\* fs.existsSync
existsSync(fs, path) == fs[path] # NoFile

\* fs.writeFileSync
writeFileSync(fs, path, data) == [fs EXCEPT ![path] = data]

\* fs.unlinkSync of a file that exists
unlinkSync(fs, path) == [fs EXCEPT ![path] = NoFile]

\* fs.readdirSync(dir): the names of the files of dir, in order
RECURSIVE readdirSyncFrom(_, _, _, _)
readdirSyncFrom(fs, dir, name, at) ==
  IF name \notin KeyIds THEN <<>>
  ELSE IF at > Len(FileSuffixes) THEN readdirSyncFrom(fs, dir, name + 1, 1)
  ELSE LET file == FileName(name, FileSuffixes[at])
       IN (IF existsSync(fs, [dir |-> dir, file |-> file])
             THEN << file >> ELSE <<>>)
          \o readdirSyncFrom(fs, dir, name, at + 1)

readdirSync(fs, dir) == readdirSyncFrom(fs, dir, 1, 1)

\* file.endsWith('.pem')
endsWithPem(file) == file.suffix \in {"-public.pem", "-private.pem"}

\* file.endsWith('-public.pem')
endsWithPublicPem(file) == file.suffix = "-public.pem"

\* what pemToHex(pem, 'PUBLIC') returns for a PEM text whose markers are not
\* those of a public key: the markers stay in the text that is decoded, and
\* the substring returned is no key
UndecodedHex == "????"

\* CryptoUtils.pemToHex(pemKey, 'PUBLIC') on the content of a file; it
\* returns a string for every text
pemToHexOfFile(content) ==
  IF content.label = "PUBLIC KEY" THEN pemToHex(content) ELSE UndecodedHex

\* KeyManager.keyExists
keyExistsAt(fs, keyId) ==
  existsSync(fs, getPublicKeyPath(keyId))
    /\ existsSync(fs, getPrivateKeyPath(keyId))

\* KeyManager.getPublicKey; "" stands for undefined
getPublicKeyAt(fs, keyId) ==
  IF ~existsSync(fs, getPublicKeyPath(keyId)) THEN ""
  ELSE pemToHexOfFile(fs[getPublicKeyPath(keyId)])

\* KeyManager.removeKey, no unlinkSync throwing
removeKeyAt(fs, keyId) ==
  LET paths == << getPublicKeyPath(keyId), getPrivateKeyPath(keyId),
                  getMetadataPath(keyId) >>
  IN [fs |-> [path \in DOMAIN fs |->
                IF path \in Range(paths) THEN NoFile ELSE fs[path]],
      removed |-> \E i \in 1..Len(paths) : existsSync(fs, paths[i])]

\* KeyManager.storeKey, no writeFileSync throwing
storeKeyAt(fs, keyId, keyPair) ==
  LET w1 == writeFileSync(fs, getPublicKeyPath(keyId),
                          hexToPem(keyPair.publicKey))
      w2 == writeFileSync(w1, getPrivateKeyPath(keyId),
                          hexToPemPrivate(keyPair.privateKey))
  IN writeFileSync(w2, getMetadataPath(keyId), MetadataFile)

\* KeyManager.generateAndStoreKey
generateAndStoreKeyAt(fs, keyId, privateKey) ==
  IF keyExistsAt(fs, keyId) THEN [fs |-> fs, thrown |-> TRUE]
  ELSE [fs |-> storeKeyAt(fs, keyId,
                          [privateKey |-> privateKey,
                           publicKey |-> getPublicKeyFromPrivate(privateKey)]),
        thrown |-> FALSE]

\* KeyManager.importKey
importKeyAt(fs, keyId, privateKey) ==
  [fs |-> storeKeyAt(fs, keyId,
                     [privateKey |-> privateKey,
                      publicKey |-> getPublicKeyFromPrivate(privateKey)]),
   thrown |-> FALSE]

\* KeyManager.importPublicKey
importPublicKeyAt(fs, keyId, publicKey) ==
  IF getPublicKeyAt(fs, keyId) # "" THEN [fs |-> fs, thrown |-> TRUE]
  ELSE [fs |-> writeFileSync(writeFileSync(fs, getPublicKeyPath(keyId),
                                           hexToPem(publicKey)),
                             getMetadataPath(keyId), MetadataFile),
        thrown |-> FALSE]

\* KeyManager.listTrustedKeys: the array of keyIds
listTrustedKeys(fs) ==
  LET files == SelectSeq(readdirSync(fs, TRUSTED_KEYS_DIR), endsWithPublicPem)
  IN [i \in 1..Len(files) |-> PlainKeyId(files[i].name)]

\* KeyManager.listKeys: the array of keyIds
listKeysAt(fs) ==
  LET exists(keyId) == keyExistsAt(fs, keyId)
  IN SelectSeq(listTrustedKeys(fs), exists)

\* KeyManager.getAllTrustedPublicKeys: the array returned
getAllTrustedPublicKeysAt(fs) ==
  LET files == SelectSeq(readdirSync(fs, TRUSTED_KEYS_DIR), endsWithPem)
  IN [i \in 1..Len(files) |->
        pemToHexOfFile(fs[[dir |-> TRUSTED_KEYS_DIR, file |-> files[i]]])]

(***************************************************************************)
(* Specification of the key store file by file                             *)
(***************************************************************************)
\* a call of the key store on the files by path
PathStoreCall(fs, call) ==
  /\ pathFiles' = fs
  /\ lastCall' = call
  /\ UNCHANGED << trustedKeysDir, configFile, document, options, policy,
                  signature, signedDocument, result, edits, privateKeysDir,
                  metadataFiles, revoked, keyInput, verifyRun >>

\* KeyManager.generateAndStoreKey(keyId)
GenerateAndStoreKeyAt(keyId, privateKey) ==
  LET r == generateAndStoreKeyAt(pathFiles, keyId, privateKey)
  IN PathStoreCall(r.fs, Call("generateAndStoreKey", keyId, r.thrown, <<>>))

\* KeyManager.importKey(keyId, privateKey)
ImportKeyAt(keyId, privateKey) ==
  LET r == importKeyAt(pathFiles, keyId, privateKey)
  IN PathStoreCall(r.fs, Call("importKey", keyId, r.thrown, <<>>))

\* KeyManager.importPublicKey(keyId, publicKey)
ImportPublicKeyAt(keyId, publicKey) ==
  LET r == importPublicKeyAt(pathFiles, keyId, publicKey)
  IN PathStoreCall(r.fs, Call("importPublicKey", keyId, r.thrown, <<>>))

\* KeyManager.removeKey(keyId)
RemoveKeyAt(keyId) ==
  LET r == removeKeyAt(pathFiles, keyId)
  IN PathStoreCall(r.fs, Call("removeKey", keyId, FALSE, Flag(r.removed)))

InitPaths ==
  /\ pathFiles = [path \in FilePaths |-> NoFile]
  /\ trustedKeysDir = [id \in KeyIds |-> NoFile]
  /\ privateKeysDir = [id \in KeyIds |-> NoFile]
  /\ metadataFiles = [id \in KeyIds |-> FALSE]
  /\ lastCall = NoCall
  /\ revoked = {}
  /\ keyInput = NoInput
  /\ verifyRun = NotVerifying
  /\ policy = NotGiven
  /\ configFile = JsonConfig(DEFAULT_SECURITY_CONFIG)
  /\ options = EnactDefaults
  /\ document = testDocument
  /\ signature = dummySignature
  /\ signedDocument = document
  /\ result = "none"
  /\ edits = 0

NextPaths ==
  \/ \E keyId \in KeyIdStrings, k \in PrivateKeys :
        GenerateAndStoreKeyAt(keyId, k)
  \/ \E keyId \in KeyIdStrings, k \in PrivateKeys : ImportKeyAt(keyId, k)
  \/ \E keyId \in KeyIdStrings, k \in PrivateKeys :
        ImportPublicKeyAt(keyId, PublicKeyHex[k])
  \/ \E keyId \in KeyIdStrings : RemoveKeyAt(keyId)

SpecPaths == InitPaths /\ [][NextPaths]_vars

(***************************************************************************)
(* C30  The trusted keys are the listed ones                               *)
(***************************************************************************)
\* C30: after any sequence of key-store operations,
\* getAllTrustedPublicKeys() returns one entry per keyId of
\* listTrustedKeys(), equal to getPublicKey(keyId), and nothing else, and
\* listKeys() is a subset of listTrustedKeys().
C30_TrustedAreListed ==
  LET keyIds == listTrustedKeys(pathFiles)
      keys == getAllTrustedPublicKeysAt(pathFiles)
  IN /\ Len(keys) = Len(keyIds)
     /\ \A i \in 1..Len(keyIds) :
          i <= Len(keys) => keys[i] = getPublicKeyAt(pathFiles, keyIds[i])
     /\ Range(listKeysAt(pathFiles)) \subseteq Range(keyIds)

====
